---- MODULE Spec2Model ----
(***************************************************************************)
(* VnMarketService (src-core/src/vn_market/service.rs): the facade over    *)
(* the VCI (stock/index), FMarket (fund) and SJC (gold) clients, its fund  *)
(* registry (known_funds, fund_ids), its quote cache and its three locks.  *)
(* Every call of the service is a process that moves from one suspension   *)
(* point (.await) to the next.                                             *)
(***************************************************************************)
EXTENDS Integers, Sequences, FiniteSets, TLC

(***************************************************************************)
(* Bounds of the model.                                                    *)
(***************************************************************************)
NProcs == 2
MaxCalls == 3

Procs == 1..NProcs

(***************************************************************************)
(* Strings.  TLC cannot look inside a string, so the string functions the  *)
(* service uses are tabulated over the strings of the model.               *)
(***************************************************************************)
\* every symbol the classification is stated for
AllSymbols == {"VN.GOLD", "VN.GOLD.INDEX", "VNINDEX", "HNX30", "VN30", "vn30",
               "dcds", "DCDS", "FPT", "VESAF"}

\* the symbols callers ask quotes and histories for: one gold symbol, one index
\* symbol, and two symbols whose classification depends on the registry
Symbols == {"VN.GOLD", "VN30", "dcds", "FPT"}

\* str::to_uppercase
to_uppercase(s) ==
    CASE s = "dcds" -> "DCDS"
      [] s = "vn30" -> "VN30"
      [] OTHER -> s

\* symbol_upper.contains("INDEX")
contains_INDEX(u) == u \in {"VNINDEX", "VN.GOLD.INDEX"}

\* models::gold::is_gold_symbol: the gold-bullion naming pattern
is_gold_symbol(s) == s \in {"VN.GOLD", "VN.GOLD.INDEX"}

\* models::stock::map_index_symbol(..).is_some(): the explicit index alias table
map_index_symbol_is_some(u) == u \in {"VNINDEX"}

AssetTypes == {"Stock", "Index", "Fund", "Gold"}

None == << >>
Some(x) == << x >>

(***************************************************************************)
(* The fund listing of the FMarket provider.                               *)
(***************************************************************************)
FundA == [id |-> 1, short_name |-> "dcds", code |-> Some("VN30"), name |-> "dc dynamic"]
FundB == [id |-> 2, short_name |-> "VN.GOLD", code |-> None, name |-> "gold fund"]
FundC == [id |-> 3, short_name |-> "FPT", code |-> None, name |-> "fpt capital"]

\* a fund whose code is the short name of FundA
FundE == [id |-> 5, short_name |-> "FPT", code |-> Some("dcds"), name |-> "fpt capital"]

Listings == { << FundA, FundB >>, << FundC >>, << FundA, FundE >>, << >> }

(***************************************************************************)
(* refresh_fund_cache: the two loops that rebuild known_funds and fund_ids *)
(***************************************************************************)
RECURSIVE PushAliases(_, _)
PushAliases(known, funds) ==
    IF funds = << >> THEN known
    ELSE LET fund == Head(funds)
             k1 == Append(known, to_uppercase(fund.short_name))
             k2 == IF fund.code # None
                   THEN Append(k1, to_uppercase(fund.code[1]))
                   ELSE k1
         IN PushAliases(k2, Tail(funds))

insert(m, k, v) == [x \in DOMAIN m \cup {k} |-> IF x = k THEN v ELSE m[x]]

\* mutant: only the short names are keys of the id map
RECURSIVE InsertIdsOfShortNames(_, _)
InsertIdsOfShortNames(ids, funds) ==
    IF funds = << >> THEN ids
    ELSE InsertIdsOfShortNames(insert(ids, to_uppercase(Head(funds).short_name),
                                      Head(funds).id),
                               Tail(funds))

RECURSIVE InsertIds(_, _)
InsertIds(ids, funds) ==
    IF funds = << >> THEN ids
    ELSE LET fund == Head(funds)
             m1 == insert(ids, to_uppercase(fund.short_name), fund.id)
             m2 == IF fund.code # None
                   THEN insert(m1, to_uppercase(fund.code[1]), fund.id)
                   ELSE m1
         IN InsertIds(m2, Tail(funds))

EmptyMap == [x \in {} |-> 0]

Range(seq) == { seq[i] : i \in DOMAIN seq }

\* a refresh that leaves the old aliases in place
KnownKept(known) == known

\* a refresh that leaves the old ids in place
IdsKept(ids) == ids

\* known.clear();
KnownCleared(known) == << >>

\* ids.clear();
IdsCleared(ids) == EmptyMap

\* known.clear(); for fund in &funds { known.push(..) }
KnownAfterRefresh(known, funds) == PushAliases(KnownCleared(known), funds)

\* ids.clear(); for fund in funds { ids.insert(..) }
IdsAfterRefresh(ids, funds) == InsertIds(IdsCleared(ids), funds)

(***************************************************************************)
(* detect_asset_type                                                       *)
(***************************************************************************)
IsIndexPattern(symbol_upper) ==
    \/ map_index_symbol_is_some(symbol_upper)
    \/ contains_INDEX(symbol_upper)
    \/ symbol_upper = "VN30"
    \/ symbol_upper = "HNX30"

\* TRUE when detect_asset_type returns before it takes the known_funds lock
DetectsWithoutRegistry(symbol) ==
    is_gold_symbol(symbol) \/ IsIndexPattern(to_uppercase(symbol))

\* a classification that consults the registry before the index pattern
detect_fund_first(symbol, known) ==
    LET symbol_upper == to_uppercase(symbol) IN
    IF is_gold_symbol(symbol) THEN "Gold"
    ELSE IF symbol_upper \in Range(known) THEN "Fund"
    ELSE IF IsIndexPattern(symbol_upper) THEN "Index"
    ELSE "Stock"

\* a classification that tests the index pattern before the gold pattern
detect_index_first(symbol, known) ==
    LET symbol_upper == to_uppercase(symbol) IN
    IF IsIndexPattern(symbol_upper) THEN "Index"
    ELSE IF is_gold_symbol(symbol) THEN "Gold"
    ELSE IF symbol_upper \in Range(known) THEN "Fund"
    ELSE "Stock"

detect_asset_type(symbol, known) ==
    LET symbol_upper == to_uppercase(symbol) IN
    IF is_gold_symbol(symbol) THEN "Gold"
    ELSE IF IsIndexPattern(symbol_upper) THEN "Index"
    ELSE IF symbol_upper \in Range(known) THEN "Fund"
    ELSE "Stock"

(***************************************************************************)
(* What the three providers can answer.                                    *)
(***************************************************************************)
\* VciClient::get_latest_quote: Ok(Some(quote)) for the symbol asked
VciQuotes(symbol) ==
    { [symbol |-> symbol, date |-> "2025-01-02", open |-> 10, high |-> 12, low |-> 9,
       close |-> 11, volume |-> 100],
      [symbol |-> symbol, date |-> "2025-01-03", open |-> 11, high |-> 13, low |-> 10,
       close |-> 12, volume |-> 0] }

\* SjcClient::get_latest_quote: Ok(quote) for the symbol asked
SjcQuotes(symbol) ==
    { [symbol |-> symbol, date |-> "2025-01-02", close |-> 80, buy_price |-> 78,
       sell_price |-> 80],
      [symbol |-> symbol, date |-> "2025-01-03", close |-> 81, buy_price |-> 79,
       sell_price |-> 81] }

\* FMarketClient::get_all_nav_history / get_nav_history: Ok(records)
Nav1 == [nav_date |-> "2025-01-01", nav |-> 10000]
Nav2 == [nav_date |-> "2025-01-05", nav |-> 10500]
NavBad == [nav_date |-> "bad-date", nav |-> 10200]
\* a NAV that is a finite f64 beyond the range of Decimal
NavHuge == [nav_date |-> "2025-01-05", nav |-> 100000]

NavHistories ==
    { << >>, << Nav1, Nav2 >>, << Nav1, NavBad, Nav2 >>, << Nav2, Nav1 >>, << Nav1, NavHuge >> }

Dates == {"2025-01-01", "2025-01-02", "2025-01-03", "2025-01-05"}

\* Decimal::MAX, on the scale of the NAVs above (an f64 reaches far beyond it)
DecimalMax == 79228

\* Decimal::from_f64_retain: None for a value that is not finite or out of range
from_f64_retain(x) == IF -DecimalMax <= x /\ x <= DecimalMax THEN Some(x) ELSE None

\* Option<Decimal>::unwrap_or_default: Decimal::ZERO for None
unwrap_or_default(o) == IF o = None THEN 0 ELSE o[1]

\* chrono::Utc::now().date_naive()
Today == {"2025-01-05"}

\* NaiveDate::parse_from_str(&r.normalized_date(), "%Y-%m-%d"): Some(date) or None
parse_date(r) == IF r.nav_date \in Dates THEN Some(r.nav_date) ELSE None

(***************************************************************************)
(* CachedQuote, as the three fetch_*_quote functions build it.             *)
(***************************************************************************)
StockCachedQuote(quote) ==
    [symbol |-> quote.symbol, asset_type |-> "Stock", date |-> quote.date,
     open |-> quote.open, high |-> quote.high, low |-> quote.low, close |-> quote.close,
     volume |-> quote.volume, nav |-> None, buy_price |-> None, sell_price |-> None,
     currency |-> "VND"]

FundCachedQuote(symbol, latest, today) ==
    LET parsed == parse_date(latest)
        date == IF parsed # None THEN parsed[1] ELSE today
        nav == unwrap_or_default(from_f64_retain(latest.nav))
    IN [symbol |-> symbol, asset_type |-> "Fund", date |-> date,
        open |-> nav, high |-> nav, low |-> nav, close |-> nav,
        volume |-> 0, nav |-> Some(nav), buy_price |-> None, sell_price |-> None,
        currency |-> "VND"]

\* a gold quote priced at the buy price
GoldCachedQuoteAtBuy(quote) ==
    [symbol |-> quote.symbol, asset_type |-> "Gold", date |-> quote.date,
     open |-> quote.buy_price, high |-> quote.buy_price, low |-> quote.buy_price,
     close |-> quote.buy_price, volume |-> 0, nav |-> None,
     buy_price |-> Some(quote.buy_price), sell_price |-> Some(quote.sell_price),
     currency |-> "VND"]

GoldCachedQuote(quote) ==
    [symbol |-> quote.symbol, asset_type |-> "Gold", date |-> quote.date,
     open |-> quote.close, high |-> quote.close, low |-> quote.close, close |-> quote.close,
     volume |-> 0, nav |-> None, buy_price |-> Some(quote.buy_price),
     sell_price |-> Some(quote.sell_price), currency |-> "VND"]

(***************************************************************************)
(* VnQuoteCache: a map from (symbol, asset type) to the last quote set.    *)
(***************************************************************************)
CacheKey(symbol, asset_type) == << symbol, asset_type >>

cache_get(cache, symbol, asset_type) ==
    IF CacheKey(symbol, asset_type) \in DOMAIN cache
    THEN Some(cache[CacheKey(symbol, asset_type)])
    ELSE None

cache_set(cache, quote) ==
    LET k == CacheKey(quote.symbol, quote.asset_type)
    IN [x \in DOMAIN cache \cup {k} |-> IF x = k THEN quote ELSE cache[x]]

EmptyCache == [x \in {} |-> 0]

(***************************************************************************)
(* Results of a call.                                                      *)
(***************************************************************************)
Ok(v) == [tag |-> "Ok", val |-> v]
Err(e) == [tag |-> "Err", val |-> e]
NoResult == [tag |-> "None", val |-> << >>]

NoData(symbol, date) == << "NoData", symbol, date >>
FundNotFound(symbol) == << "FundNotFound", symbol >>

\* an absent quote reported as an unknown fund
NoQuoteAsNotFound(symbol) == FundNotFound(symbol)

\* VnMarketError::NoData { symbol: symbol.to_string(), date: "latest".to_string() }
NoQuote(symbol) == NoData(symbol, "latest")
\* an error of a client, passed through unchanged
ClientError(client) == << "ClientError", client >>

(***************************************************************************)
(* History records, as the three fetch_*_history functions build them.     *)
(***************************************************************************)
\* VciClient::get_history: Ok(quotes)
VciHistories(symbol) ==
    { << >>,
      << [symbol |-> symbol, date |-> "2025-01-02", open |-> 10, high |-> 12, low |-> 9,
          close |-> 11, volume |-> 100],
         [symbol |-> symbol, date |-> "2025-01-03", open |-> 11, high |-> 13, low |-> 10,
          close |-> 12, volume |-> 0] >> }

\* SjcClient::get_history: Ok(quotes)
SjcHistories ==
    { << >>,
      << [date |-> "2025-01-02", close |-> 80, buy_price |-> 78, sell_price |-> 80],
         [date |-> "2025-01-03", close |-> 81, buy_price |-> 79, sell_price |-> 81] >> }

StockRecord(q) ==
    [symbol |-> q.symbol, asset_type |-> "Stock", date |-> q.date,
     open |-> q.open, high |-> q.high, low |-> q.low, close |-> q.close,
     volume |-> q.volume, nav |-> None, buy_price |-> None, sell_price |-> None]

FundRecord(symbol, date, nav) ==
    [symbol |-> symbol, asset_type |-> "Fund", date |-> date,
     open |-> nav, high |-> nav, low |-> nav, close |-> nav,
     volume |-> 0, nav |-> Some(nav), buy_price |-> None, sell_price |-> None]

GoldRecord(symbol, q) ==
    [symbol |-> symbol, asset_type |-> "Gold", date |-> q.date,
     open |-> q.close, high |-> q.close, low |-> q.close, close |-> q.close,
     volume |-> 0, nav |-> None, buy_price |-> Some(q.buy_price),
     sell_price |-> Some(q.sell_price)]

\* quotes.into_iter().map(..).collect()
StockRecords(quotes) == [i \in DOMAIN quotes |-> StockRecord(quotes[i])]

GoldRecords(symbol, quotes) == [i \in DOMAIN quotes |-> GoldRecord(symbol, quotes[i])]

\* a conversion that stops at the first row whose date does not parse
RECURSIVE FundRecordsUntilBad(_, _)
FundRecordsUntilBad(symbol, nav_records) ==
    IF nav_records = << >> THEN << >>
    ELSE LET r == Head(nav_records)
             date == parse_date(r)
         IN IF date = None THEN << >>
            ELSE << FundRecord(symbol, date[1], unwrap_or_default(from_f64_retain(r.nav))) >>
                     \o FundRecordsUntilBad(symbol, Tail(nav_records))

\* nav_records.into_iter().filter_map(..).collect()
RECURSIVE FundRecords(_, _)
FundRecords(symbol, nav_records) ==
    IF nav_records = << >> THEN << >>
    ELSE LET r == Head(nav_records)
             date == parse_date(r)
             nav == unwrap_or_default(from_f64_retain(r.nav))
             rest == FundRecords(symbol, Tail(nav_records))
         IN IF date = None THEN rest
            ELSE << FundRecord(symbol, date[1], nav) >> \o rest

\* the (start, end) ranges a caller asks a history for
Ranges == { << "2025-01-01", "2025-01-05" >> }

(***************************************************************************)
(* search: the equity listing, the queries and the string tests.           *)
(***************************************************************************)
SearchCap == 20

Queries == {"gold", "FPT", "sjc", "dc"}

\* more stocks than the cap of the equity loop
ManyStocks == SearchCap + 2

\* the tickers of the stocks of the long equity listing, and their lowercase forms
Tickers == [i \in 1..ManyStocks |-> "GM" \o ToString(i)]

TickersLower == [i \in 1..ManyStocks |-> "gm" \o ToString(i)]

TickerSet == { Tickers[i] : i \in 1..ManyStocks }

TickerLowerOf == [t \in TickerSet |-> TickersLower[CHOOSE i \in 1..ManyStocks : Tickers[i] = t]]

Ticker(i) == Tickers[i]

to_lowercase(s) ==
    CASE s = "FPT" -> "fpt"
      [] s \in TickerSet -> TickerLowerOf[s]
      [] s = "Gold Mine" -> "gold mine"
      [] s = "FPTX" -> "fptx"
      [] s = "PNJ" -> "pnj"
      [] s = "VNINDEX" -> "vnindex"
      [] s = "VN.GOLD" -> "vn.gold"
      [] s = "FPT Corp" -> "fpt corp"
      [] s = "FPT Old" -> "fpt old"
      [] s = "Phu Nhuan Gold" -> "phu nhuan gold"
      [] s = "VN Index" -> "vn index"
      [] OTHER -> s

\* str::contains over the lowercased texts of the model
contains(text, q) ==
    << text, q >> \in
        { << "fpt", "fpt" >>, << "fptx", "fpt" >>, << "fpt corp", "fpt" >>,
          << "fpt old", "fpt" >>, << "fpt capital", "fpt" >>,
          << "phu nhuan gold", "gold" >>, << "vn.gold", "gold" >>,
          << "gold mine", "gold" >>,
          << "gold fund", "gold" >>, << "gold", "gold" >>,
          << "dcds", "dc" >>, << "dc dynamic", "dc" >>, << "dc", "dc" >>,
          << "sjc", "sjc" >> }

\* VciClient::get_all_symbols: Ok(symbols)
VciSymbols ==
    << [symbol |-> "FPT", display_name |-> "FPT Corp", is_stock |-> TRUE,
        is_listed |-> TRUE, exchange |-> "HOSE"],
       [symbol |-> "FPTX", display_name |-> "FPT Old", is_stock |-> TRUE,
        is_listed |-> FALSE, exchange |-> "HOSE"],
       [symbol |-> "VNINDEX", display_name |-> "VN Index", is_stock |-> FALSE,
        is_listed |-> TRUE, exchange |-> "HOSE"],
       [symbol |-> "PNJ", display_name |-> "Phu Nhuan Gold", is_stock |-> TRUE,
        is_listed |-> TRUE, exchange |-> "HOSE"] >>

\* VciClient::get_all_symbols: Ok(symbols), a listing with more matches than the cap;
\* the second entry is not listed
VciManySymbols ==
    [i \in 1..ManyStocks |->
        [symbol |-> Ticker(i), display_name |-> "Gold Mine", is_stock |-> TRUE,
         is_listed |-> (i # 2), exchange |-> "HNX"]]

VciSymbolListings == { VciSymbols, VciManySymbols, << >> }

SearchResult(symbol, name, asset_type, exchange) ==
    [symbol |-> symbol, name |-> name, asset_type |-> asset_type, exchange |-> exchange]

\* a loop over the stocks that never stops early
RECURSIVE SearchStocksNoCap(_, _, _)
SearchStocksNoCap(results, symbols, query_lower) ==
    IF symbols = << >> THEN results
    ELSE LET s == Head(symbols) IN
         IF /\ s.is_stock /\ s.is_listed
            /\ \/ contains(to_lowercase(s.symbol), query_lower)
               \/ contains(to_lowercase(s.display_name), query_lower)
         THEN SearchStocksNoCap(Append(results,
                  SearchResult(s.symbol, s.display_name, "Stock", s.exchange)),
                  Tail(symbols), query_lower)
         ELSE SearchStocksNoCap(results, Tail(symbols), query_lower)

\* the loop over symbols.iter().filter(|s| s.is_stock() && s.is_listed())
RECURSIVE SearchStocks(_, _, _)
SearchStocks(results, symbols, query_lower) ==
    IF symbols = << >> THEN results
    ELSE LET s == Head(symbols) IN
         IF ~(s.is_stock /\ s.is_listed)
         THEN SearchStocks(results, Tail(symbols), query_lower)
         ELSE IF \/ contains(to_lowercase(s.symbol), query_lower)
                 \/ contains(to_lowercase(s.display_name), query_lower)
              THEN LET pushed == Append(results,
                                   SearchResult(s.symbol, s.display_name, "Stock", s.exchange))
                   IN IF Len(pushed) >= SearchCap THEN pushed
                      ELSE SearchStocks(pushed, Tail(symbols), query_lower)
              ELSE SearchStocks(results, Tail(symbols), query_lower)

\* the loop over the funds listing
RECURSIVE SearchFundsLoop(_, _, _)
SearchFundsLoop(results, funds, query_lower) ==
    IF funds = << >> THEN results
    ELSE LET fund == Head(funds) IN
         IF \/ contains(to_lowercase(fund.short_name), query_lower)
            \/ contains(to_lowercase(fund.name), query_lower)
         THEN SearchFundsLoop(Append(results,
                  SearchResult(fund.short_name, fund.name, "Fund", "FUND")),
                  Tail(funds), query_lower)
         ELSE SearchFundsLoop(results, Tail(funds), query_lower)

GoldEntries ==
    << SearchResult("VN.GOLD", "SJC Gold (Luong)", "Gold", "SJC"),
       SearchResult("VN.GOLD.C", "SJC Gold (Chi)", "Gold", "SJC") >>

\* query_lower.contains("gold") || query_lower.contains("vàng") || query_lower == "sjc"
IsGoldQuery(query_lower) ==
    contains(query_lower, "gold") \/ contains(query_lower, "vàng") \/ query_lower = "sjc"

SearchGold(results, query_lower) ==
    IF IsGoldQuery(query_lower) THEN results \o GoldEntries ELSE results

(***************************************************************************)
(* GoalService (src-core/src/goals/goals_service.rs): allocation of        *)
(* account value to goals over date ranges.  The service is a stateless    *)
(* layer over the goal repository; the repository's tables are the state.  *)
(***************************************************************************)
\* the dates of the model, in the order of str::cmp (byte-wise, which for
\* YYYY-MM-DD strings is the calendar order)
GoalDates == << "2025-01-01", "2025-06-30", "2025-07-01", "2025-12-31" >>

GoalDateSet == { GoalDates[i] : i \in DOMAIN GoalDates }

DateRank == [d \in GoalDateSet |-> CHOOSE i \in DOMAIN GoalDates : GoalDates[i] = d]

\* a <= b on &str
StrLe(a, b) == DateRank[a] <= DateRank[b]

\* i32
I32Max == 2147483647

\* the += of two i32 where the build does not check overflow: the sum modulo 2^32,
\* computed without leaving the 32-bit range
wrapping_add(a, b) ==
    IF a > 0 /\ b > 0 /\ a > I32Max - b THEN (a - I32Max - 1) + (b - I32Max - 1)
    ELSE IF a < 0 /\ b < 0 /\ a < (-I32Max - 1) - b THEN (a + I32Max + 1) + (b + I32Max + 1)
    ELSE a + b

\* the += of two i32 overflows
Overflows(a, b) ==
    \/ a > 0 /\ b > 0 /\ a > I32Max - b
    \/ a < 0 /\ b < 0 /\ a < (-I32Max - 1) - b

\* goals_model::Goal, the fields the service reads
Goal(id, start_date, due_date, is_achieved) ==
    [id |-> id, title |-> id, start_date |-> start_date, due_date |-> due_date,
     is_achieved |-> is_achieved]

\* goals_model::GoalsAllocation
GoalsAllocation(id, goal_id, account_id, percent_allocation, start_date, end_date) ==
    [id |-> id, goal_id |-> goal_id, account_id |-> account_id,
     percent_allocation |-> percent_allocation,
     start_date |-> start_date, end_date |-> end_date]

\* Error::Validation(ValidationError::InvalidInput(..))
InvalidInput(what) == [kind |-> "Validation", what |-> what]

\* the panic of an arithmetic overflow in a build with overflow checks
Panic == [tag |-> "Panic", val |-> << >>]

\* GoalRepository::load_allocations_for_non_achieved_goals: the rows of the
\* allocation table whose goal is in the goal table and is not achieved
LoadAllocationsForNonAchievedGoals(goal_table, table) ==
    SelectSeq(table, LAMBDA a :
        \E i \in DOMAIN goal_table :
            goal_table[i].id = a.goal_id /\ ~goal_table[i].is_achieved)

\* allocation.account_id == account_id, both dates set, the ranges overlap
\* (alloc_start <= new_end_date && alloc_end >= new_start_date), and the row is not
\* the excluded one
Conflicts(a, account_id, new_start_date, new_end_date, exclude) ==
    /\ a.account_id = account_id
    /\ a.start_date # None /\ a.end_date # None
    /\ StrLe(a.start_date[1], new_end_date)
    /\ StrLe(new_start_date, a.end_date[1])
    /\ ~(exclude # None /\ a.id = exclude[1])

\* the loop of validate_allocation_conflicts from row i on: conflicting_percent as
\* a build without overflow checks computes it, and whether a += left the i32 range
RECURSIVE ConflictingPercent(_, _, _, _, _, _, _, _)
ConflictingPercent(rows, i, account_id, new_start_date, new_end_date, exclude, acc, over) ==
    IF i > Len(rows) THEN [sum |-> acc, overflow |-> over]
    ELSE IF ~Conflicts(rows[i], account_id, new_start_date, new_end_date, exclude)
    THEN ConflictingPercent(rows, i + 1, account_id, new_start_date, new_end_date,
                            exclude, acc, over)
    ELSE ConflictingPercent(rows, i + 1, account_id, new_start_date, new_end_date,
                            exclude, wrapping_add(acc, rows[i].percent_allocation),
                            over \/ Overflows(acc, rows[i].percent_allocation))

\* if conflicting_percent > 100
Exceeds(conflicting_percent) == conflicting_percent > 100

\* validate_allocation_conflicts: the results the builds of the service can give.
\* With overflow checks an overflowing += panics; without them the sum wraps.
ValidateAllocationConflicts(goal_table, table, account_id, new_start_date, new_end_date, new_percent_allocation, exclude) ==
    LET rows == LoadAllocationsForNonAchievedGoals(goal_table, table)
        c == ConflictingPercent(rows, 1, account_id, new_start_date, new_end_date,
                                exclude, new_percent_allocation, FALSE)
        answer == IF Exceeds(c.sum) THEN Err(InvalidInput("exceeds")) ELSE Ok(<< >>)
    IN  IF c.overflow THEN {Panic, answer} ELSE {answer}

\* mutant: the end date is not part of the range
GetGoalAllocationsBeforeEnd(goal_table, table, goal_id, query_date) ==
    SelectSeq(LoadAllocationsForNonAchievedGoals(goal_table, table), LAMBDA a :
        /\ a.goal_id = goal_id
        /\ a.start_date # None /\ a.end_date # None
        /\ StrLe(a.start_date[1], query_date)
        /\ StrLe(query_date, a.end_date[1]) /\ query_date # a.end_date[1])

\* get_goal_allocations_on_date: the filter over the non-achieved goals' rows
GetGoalAllocationsOnDate(goal_table, table, goal_id, query_date) ==
    SelectSeq(LoadAllocationsForNonAchievedGoals(goal_table, table), LAMBDA a :
        /\ a.goal_id = goal_id
        /\ a.start_date # None /\ a.end_date # None
        /\ StrLe(a.start_date[1], query_date)
        /\ StrLe(query_date, a.end_date[1]))

\* goal_map.get(&allocation.goal_id)
GoalMapGet(goal_table, goal_id) ==
    LET hits == { i \in DOMAIN goal_table : goal_table[i].id = goal_id }
    IN  IF hits = {} THEN None
        ELSE Some(goal_table[CHOOSE i \in hits : \A j \in hits : j <= i])

\* mutant: the dates of the goal replace the dates of the allocation
BackfilledOver(goal_table, a) ==
    LET g == GoalMapGet(goal_table, a.goal_id)
    IN  IF g = None THEN a
        ELSE [a EXCEPT !.start_date = g[1].start_date, !.end_date = g[1].due_date]

\* the body of the loop of upsert_goal_allocations
Backfilled(goal_table, a) ==
    LET g == GoalMapGet(goal_table, a.goal_id)
    IN  IF g = None THEN a
        ELSE [a EXCEPT !.start_date = IF @ = None THEN g[1].start_date ELSE @,
                       !.end_date = IF @ = None THEN g[1].due_date ELSE @]

\* for allocation in &mut allocations { .. }
BackfillAll(goal_table, list) == [i \in DOMAIN list |-> Backfilled(goal_table, list[i])]

\* GoalRepository::upsert_goal_allocations: each row replaces the row of its id, or
\* is added to the table
RECURSIVE RepoUpsert(_, _)
RepoUpsert(table, list) ==
    IF list = << >> THEN table
    ELSE LET a == Head(list)
             at == { i \in DOMAIN table : table[i].id = a.id }
         IN  RepoUpsert(IF at = {} THEN Append(table, a)
                        ELSE [i \in DOMAIN table |-> IF i \in at THEN a ELSE table[i]],
                        Tail(list))

\* GoalRepository::get_allocations_for_account_on_date.  The service asks it for the
\* account "" (goals_service.rs:100).  Either the repository compares the account id
\* as it is given (empty_is_any = FALSE), or it takes the empty id for every account.
RepoAllocationsForAccountOnDate(table, account_id, query_date, empty_is_any) ==
    SelectSeq(table, LAMBDA a :
        /\ a.account_id = account_id \/ (empty_is_any /\ account_id = "")
        /\ a.start_date # None /\ a.end_date # None
        /\ StrLe(a.start_date[1], query_date)
        /\ StrLe(query_date, a.end_date[1]))

\* map.get(&allocation.account_id).copied().unwrap_or(0.0)
ValueOf(values, account_id) ==
    IF account_id \in DOMAIN values THEN values[account_id] ELSE 0

\* account_growth * (percent_allocation as f64 / 100.0).  Amounts are whole
\* hundreds, so that the product is a whole number; the growth of an account with
\* an allocation of I32Max percent is at most one hundred either way.
AllocatedGrowth(account_growth, percent_allocation) ==
    (account_growth \div 100) * percent_allocation

\* goal_progress_model::AllocationDetail of one allocation
Detail(a, start_values, current_values) ==
    LET account_value_at_start == ValueOf(start_values, a.account_id)
        current_account_value == ValueOf(current_values, a.account_id)
        account_growth == current_account_value - account_value_at_start
    IN  [account_id |-> a.account_id,
         percent_allocation |-> a.percent_allocation,
         account_value_at_goal_start |-> account_value_at_start,
         account_current_value |-> current_account_value,
         account_growth |-> account_growth,
         allocated_growth |-> AllocatedGrowth(account_growth, a.percent_allocation)]

\* total_growth += allocated_growth, over the details
RECURSIVE TotalGrowth(_)
TotalGrowth(details) ==
    IF details = << >> THEN 0
    ELSE TotalGrowth(SubSeq(details, 1, Len(details) - 1))
         + details[Len(details)].allocated_growth

\* calculate_goal_progress_on_date, given the repository's answer
CalculateGoalProgressOnDate(goal, active_allocations, start_values, current_values, query_date) ==
    IF goal.start_date = None THEN Err(InvalidInput("Goal must have a start_date"))
    ELSE LET goal_allocations == SelectSeq(active_allocations,
                                           LAMBDA a : a.goal_id = goal.id)
             allocation_details ==
                 [i \in DOMAIN goal_allocations |->
                     Detail(goal_allocations[i], start_values, current_values)]
             total_growth == TotalGrowth(allocation_details)
         IN  Ok([goal_id |-> goal.id, goal_title |-> goal.title,
                 query_date |-> query_date, init_value |-> 0,
                 current_value |-> total_growth, growth |-> total_growth,
                 allocation_details |-> allocation_details])


(***************************************************************************)
(* State.                                                                  *)
(*   known_funds, fund_ids, quote_cache : the fields of VnMarketService    *)
(*   fmarket_writer, fmarket_readers    : holders of the fmarket_client    *)
(*                                        RwLock                           *)
(*   known_writer, ids_writer           : holders of the write guards of   *)
(*                                        known_funds and fund_ids (read   *)
(*                                        guards are dropped within a step)*)
(*   calls                              : per caller, the call in progress *)
(*                                        with its position and locals     *)
(*   started                            : number of calls begun            *)
(*   prev                               : per caller, the call it finished *)
(*                                        just before the current one      *)
(*   refreshed                          : the listings of the refreshes    *)
(*                                        that returned Ok, in order       *)
(*   goals, allocations                 : the goal table and the allocation*)
(*                                        table of the goal repository     *)
(*   goal_out                           : the last call of the GoalService *)
(*                                        with its arguments and result    *)
(***************************************************************************)
VARIABLES known_funds, fund_ids, quote_cache,
          fmarket_writer, fmarket_readers, known_writer, ids_writer,
          calls, started, prev, refreshed,
          goals, allocations, goal_out

vars == << known_funds, fund_ids, quote_cache,
           fmarket_writer, fmarket_readers, known_writer, ids_writer,
           calls, started, prev, refreshed,
           goals, allocations, goal_out >>

goal_vars == << goals, allocations, goal_out >>

registry == << known_funds, fund_ids >>
locks == << fmarket_writer, fmarket_readers, known_writer, ids_writer >>

NoOne == 0

\* no call of the GoalService has been made
NoGoalCall == [op |-> "none", args |-> << >>, passed |-> << >>, result |-> NoResult]

\* the goal repository is empty and the GoalService has not been called
GoalsIdle ==
    /\ goals = << >>
    /\ allocations = << >>
    /\ goal_out = NoGoalCall

IdleCall ==
    [op |-> "none", arg |-> "", pc |-> "idle", asset_type |-> "none",
     count |-> 0, funds |-> << >>, i |-> 0, fund_id |-> 0, quote |-> None,
     results |-> << >>, result |-> NoResult, ncalls |-> 0, adapter |-> "none",
     cached |-> "none", before |-> << >>, seen |-> << >>, overlap |-> FALSE, answers |-> << >>]

\* locals of a call, and what the call did:
\*   ncalls, adapter : the quote/history requests made to a client, and the client
\*   cached          : "hit" or "miss", the outcome of quote_cache.get
\*   before          : the registry when refresh_fund_cache took the client lock
\*   seen            : the refreshes that had returned when the call classified
\*   answers         : what the clients answered to the requests of the call
\*   overlap         : the call started, or read the registry, while a
\*                     refresh_fund_cache call of another caller was under way
Answered(c, client, answer) ==
    [c EXCEPT !.ncalls = @ + 1, !.adapter = client, !.answers = Append(@, answer)]

NewCall(op, arg, pc) == [IdleCall EXCEPT !.op = op, !.arg = arg, !.pc = pc]

\* the call returns: its locals are dropped, its result is handed to the caller
Return(c, result) ==
    [c EXCEPT !.pc = "done", !.result = result,
              !.count = 0, !.funds = << >>, !.i = 0, !.fund_id = 0, !.quote = None,
              !.results = << >>]

\* what is remembered of a finished call: a get_latest_quote that returned Ok
NoSummary == [op |-> "none", arg |-> "", result |-> NoResult]

Summary(c) ==
    IF c.op = "quote" /\ c.pc = "done" /\ c.result.tag = "Ok"
    THEN [op |-> c.op, arg |-> c.arg, result |-> c.result]
    ELSE NoSummary

\* the VnMarketService after construction
MarketInit ==
    /\ known_funds = << >>
    /\ fund_ids = EmptyMap
    /\ quote_cache = EmptyCache
    /\ fmarket_writer = NoOne
    /\ fmarket_readers = {}
    /\ known_writer = NoOne
    /\ ids_writer = NoOne
    /\ calls = [p \in Procs |-> IdleCall]
    /\ started = 0
    /\ prev = [p \in Procs |-> NoSummary]
    /\ refreshed = << >>

Init ==
    /\ MarketInit
    /\ GoalsIdle

\* the refresh_fund_cache call of p holds the client lock: it is between taking the
\* lock (before its listing fetch) and the end of its registry update
InRefresh(p) ==
    calls[p].pc \in {"refresh_client", "refresh_listing", "refresh_known", "known_push",
                     "refresh_ids", "ids_insert"}

\* a refresh_fund_cache call of another caller is under way
RefreshUnderWay(p) == \E q \in Procs \ {p} : InRefresh(q)

\* a caller starts a call of the service
Begin(p, op, arg, pc) ==
    /\ calls[p].pc \in {"idle", "done", "cancelled"}
    /\ started < MaxCalls
    /\ started' = started + 1
    /\ prev' = [prev EXCEPT ![p] = Summary(calls[p])]
    /\ calls' = [calls EXCEPT ![p] = [NewCall(op, arg, pc) EXCEPT
                                         !.overlap = (op = "refresh" /\ RefreshUnderWay(p))]]
    /\ UNCHANGED << registry, quote_cache, locks, refreshed >>
    /\ UNCHANGED goal_vars

(***************************************************************************)
(* refresh_fund_cache                                                      *)
(***************************************************************************)
CallRefresh(p) == Begin(p, "refresh", "", "refresh_lock")

\* a refresh that does not wait for the client lock
RefreshLockClientNoWait(p) ==
    /\ calls[p].pc = "refresh_lock"
    /\ fmarket_writer' = p
    /\ calls' = [calls EXCEPT ![p].pc = "refresh_client",
                              ![p].before = << known_funds, fund_ids >>]
    /\ UNCHANGED << registry, quote_cache, fmarket_readers, known_writer, ids_writer,
                    started, prev, refreshed >>
    /\ UNCHANGED goal_vars

\* let mut client = self.fmarket_client.write().await;
RefreshLockClient(p) ==
    /\ calls[p].pc = "refresh_lock"
    /\ fmarket_writer = NoOne /\ fmarket_readers = {}
    /\ fmarket_writer' = p
    /\ calls' = [calls EXCEPT ![p].pc = "refresh_client",
                              ![p].before = << known_funds, fund_ids >>]
    /\ UNCHANGED << registry, quote_cache, fmarket_readers, known_writer, ids_writer,
                    started, prev, refreshed >>
    /\ UNCHANGED goal_vars

\* let count = client.refresh_fund_cache().await?;
RefreshClientCache(p) ==
    /\ calls[p].pc = "refresh_client"
    /\ \/ \E funds \in Listings :
            /\ calls' = [calls EXCEPT ![p].pc = "refresh_listing",
                                      ![p].count = Len(funds)]
            /\ UNCHANGED fmarket_writer
       \/ /\ calls' = [calls EXCEPT ![p] = Return(@, Err(ClientError("fmarket")))]
          /\ fmarket_writer' = NoOne
    /\ UNCHANGED << registry, quote_cache, fmarket_readers, known_writer, ids_writer,
                    started, prev, refreshed >>
    /\ UNCHANGED goal_vars

\* a refresh that clears the alias set before it fetches the listing
RefreshListingClearsFirst(p) ==
    /\ calls[p].pc = "refresh_listing"
    /\ \/ \E funds \in Listings :
            /\ calls' = [calls EXCEPT ![p].pc = "refresh_known", ![p].funds = funds]
            /\ UNCHANGED << fmarket_writer, registry >>
       \/ /\ calls' = [calls EXCEPT ![p] = Return(@, Err(ClientError("fmarket")))]
          /\ fmarket_writer' = NoOne
          /\ known_funds' = << >>
          /\ UNCHANGED fund_ids
    /\ UNCHANGED << quote_cache, fmarket_readers, known_writer, ids_writer,
                    started, prev, refreshed >>
    /\ UNCHANGED goal_vars

\* let funds = client.get_funds_listing().await?;
RefreshListing(p) ==
    /\ calls[p].pc = "refresh_listing"
    /\ \/ \E funds \in Listings :
            /\ calls' = [calls EXCEPT ![p].pc = "refresh_known", ![p].funds = funds]
            /\ UNCHANGED fmarket_writer
       \/ /\ calls' = [calls EXCEPT ![p] = Return(@, Err(ClientError("fmarket")))]
          /\ fmarket_writer' = NoOne
    /\ UNCHANGED << registry, quote_cache, fmarket_readers, known_writer, ids_writer,
                    started, prev, refreshed >>
    /\ UNCHANGED goal_vars

\* let mut known = self.known_funds.write().await; known.clear();
RefreshKnown(p) ==
    /\ calls[p].pc = "refresh_known"
    /\ known_writer = NoOne
    /\ known_writer' = p
    /\ known_funds' = KnownCleared(known_funds)
    /\ calls' = [calls EXCEPT ![p].i = 0,
                              ![p].pc = IF calls[p].funds = << >> THEN "refresh_ids"
                                        ELSE "known_push"]
    /\ UNCHANGED << fund_ids, quote_cache, fmarket_writer, fmarket_readers, ids_writer,
                    started, prev, refreshed >>
    /\ UNCHANGED goal_vars

\* for fund in &funds { known.push(short_name); if let Some(code) .. known.push(code) }
\* one turn of the loop
RefreshKnownPush(p) ==
    /\ calls[p].pc = "known_push"
    /\ LET i == calls[p].i + 1 IN
       /\ known_funds' = PushAliases(known_funds, << calls[p].funds[i] >>)
       /\ calls' = [calls EXCEPT ![p].i = i,
                                 ![p].pc = IF i = Len(calls[p].funds) THEN "refresh_ids"
                                           ELSE "known_push"]
    /\ UNCHANGED << fund_ids, quote_cache, locks, started, prev, refreshed >>
    /\ UNCHANGED goal_vars

\* the guards of refresh_fund_cache are dropped and it returns Ok(count)
\* mutant: the guard of the client lock outlives the call
RefreshReturnKeepsClientGuard(p) ==
    /\ calls' = [calls EXCEPT ![p] = Return(@, Ok(calls[p].count))]
    /\ ids_writer' = NoOne
    /\ known_writer' = NoOne
    /\ fmarket_writer' = fmarket_writer
    /\ refreshed' = Append(refreshed, calls[p].funds)
    /\ UNCHANGED goal_vars

RefreshReturn(p) ==
    /\ calls' = [calls EXCEPT ![p] = Return(@, Ok(calls[p].count))]
    /\ ids_writer' = NoOne
    /\ known_writer' = NoOne
    /\ fmarket_writer' = NoOne
    /\ refreshed' = Append(refreshed, calls[p].funds)
    /\ UNCHANGED goal_vars

\* let mut ids = self.fund_ids.write().await; ids.clear(); and Ok(count) when the
\* listing is empty
RefreshIds(p) ==
    /\ calls[p].pc = "refresh_ids"
    /\ ids_writer = NoOne
    /\ fund_ids' = IdsCleared(fund_ids)
    /\ IF calls[p].funds = << >>
       THEN RefreshReturn(p)
       ELSE /\ ids_writer' = p
            /\ calls' = [calls EXCEPT ![p].i = 0, ![p].pc = "ids_insert"]
            /\ UNCHANGED << fmarket_writer, known_writer, refreshed >>
    /\ UNCHANGED << known_funds, quote_cache, fmarket_readers, started, prev >>
    /\ UNCHANGED goal_vars

\* for fund in funds { ids.insert(short_name, id); if let Some(code) .. ids.insert(code, id) }
\* one turn of the loop, and Ok(count) after the last one
RefreshIdsInsert(p) ==
    /\ calls[p].pc = "ids_insert"
    /\ LET i == calls[p].i + 1 IN
       /\ fund_ids' = InsertIds(fund_ids, << calls[p].funds[i] >>)
       /\ IF i = Len(calls[p].funds)
          THEN RefreshReturn(p)
          ELSE /\ calls' = [calls EXCEPT ![p].i = i]
               /\ UNCHANGED << locks, refreshed >>
    /\ UNCHANGED << known_funds, quote_cache, fmarket_readers, started, prev >>
    /\ UNCHANGED goal_vars

(***************************************************************************)
(* get_latest_quote and get_history                                        *)
(***************************************************************************)
CallQuote(p) == \E symbol \in Symbols : Begin(p, "quote", symbol, "detect")

CallHistory(p) == \E symbol \in Symbols : Begin(p, "history", symbol, "detect")

\* a classification that reads the alias set without waiting for its lock
DetectNoLock(p) ==
    /\ calls[p].pc = "detect"
    /\ calls' = [calls EXCEPT
                   ![p].asset_type = detect_asset_type(calls[p].arg, known_funds),
                   ![p].seen = refreshed,
                   ![p].overlap = @ \/ (~DetectsWithoutRegistry(calls[p].arg)
                                           /\ RefreshUnderWay(p)),
                   ![p].pc = IF calls[p].op = "quote" THEN "cache_get" ELSE "fetch"]
    /\ UNCHANGED << registry, quote_cache, locks, started, prev, refreshed >>
    /\ UNCHANGED goal_vars

\* let asset_type = self.detect_asset_type(symbol).await;
Detect(p) ==
    /\ calls[p].pc = "detect"
    /\ DetectsWithoutRegistry(calls[p].arg) \/ known_writer = NoOne
    /\ calls' = [calls EXCEPT
                   ![p].asset_type = detect_asset_type(calls[p].arg, known_funds),
                   ![p].seen = refreshed,
                   ![p].overlap = @ \/ (~DetectsWithoutRegistry(calls[p].arg)
                                           /\ RefreshUnderWay(p)),
                   ![p].pc = IF calls[p].op = "quote" THEN "cache_get" ELSE "fetch"]
    /\ UNCHANGED << registry, quote_cache, locks, started, prev, refreshed >>
    /\ UNCHANGED goal_vars

\* a lookup that fetches again on a hit
CacheGetRevalidates(p) ==
    /\ calls[p].pc = "cache_get"
    /\ LET cached == cache_get(quote_cache, calls[p].arg, calls[p].asset_type) IN
       calls' = [calls EXCEPT ![p] = IF cached # None
                                     THEN [@ EXCEPT !.cached = "hit", !.pc = "fetch"]
                                     ELSE [@ EXCEPT !.cached = "miss", !.pc = "fetch"]]
    /\ UNCHANGED << registry, quote_cache, locks, started, prev, refreshed >>
    /\ UNCHANGED goal_vars

\* if let Some(cached) = self.quote_cache.get(symbol, asset_type).await { return Ok(cached); }
CacheGet(p) ==
    /\ calls[p].pc = "cache_get"
    /\ LET cached == cache_get(quote_cache, calls[p].arg, calls[p].asset_type) IN
       calls' = [calls EXCEPT ![p] = IF cached # None
                                     THEN Return([@ EXCEPT !.cached = "hit"], Ok(cached[1]))
                                     ELSE [@ EXCEPT !.cached = "miss", !.pc = "fetch"]]
    /\ UNCHANGED << registry, quote_cache, locks, started, prev, refreshed >>
    /\ UNCHANGED goal_vars

\* a fetch that asks the equity client again when it fails
FetchStockQuoteRetries(p) ==
    /\ calls[p].pc = "fetch" /\ calls[p].op = "quote"
    /\ calls[p].asset_type \in {"Stock", "Index"}
    /\ \/ \E quote \in VciQuotes(calls[p].arg) :
            calls' = [calls EXCEPT ![p] =
                        [Answered(@, "vci", Ok(Some(quote))) EXCEPT
                            !.pc = "cache_set", !.quote = Some(StockCachedQuote(quote))]]
       \/ calls' = [calls EXCEPT ![p] = Return(Answered(@, "vci", Ok(None)),
                                               Err(NoQuote(calls[p].arg)))]
       \/ /\ calls[p].ncalls < 2
          /\ calls' = [calls EXCEPT ![p] = Answered(@, "vci", Err(ClientError("vci")))]
    /\ UNCHANGED << registry, quote_cache, locks, started, prev, refreshed >>
    /\ UNCHANGED goal_vars

\* fetch_stock_quote: self.vci_client.get_latest_quote(symbol).await?.ok_or_else(NoData)?
FetchStockQuote(p) ==
    /\ calls[p].pc = "fetch" /\ calls[p].op = "quote"
    /\ calls[p].asset_type \in {"Stock", "Index"}
    /\ \/ \E quote \in VciQuotes(calls[p].arg) :
            calls' = [calls EXCEPT ![p] =
                        [Answered(@, "vci", Ok(Some(quote))) EXCEPT
                            !.pc = "cache_set", !.quote = Some(StockCachedQuote(quote))]]
       \/ calls' = [calls EXCEPT ![p] = Return(Answered(@, "vci", Ok(None)),
                                               Err(NoQuote(calls[p].arg)))]
       \/ calls' = [calls EXCEPT ![p] = Return(Answered(@, "vci", Err(ClientError("vci"))),
                                               Err(ClientError("vci")))]
    /\ UNCHANGED << registry, quote_cache, locks, started, prev, refreshed >>
    /\ UNCHANGED goal_vars

\* fetch_fund_quote / fetch_fund_history:
\* let fund_id = { let ids = self.fund_ids.read().await; ids.get(..).copied().ok_or_else(..)? };
ResolveFundId(p) ==
    /\ calls[p].pc = "fetch"
    /\ calls[p].asset_type = "Fund"
    /\ ids_writer = NoOne
    /\ LET key == to_uppercase(calls[p].arg)
           c == [calls[p] EXCEPT !.overlap = @ \/ RefreshUnderWay(p)] IN
       calls' = [calls EXCEPT ![p] =
                   IF key \in DOMAIN fund_ids
                   THEN [c EXCEPT !.pc = "fund_lock", !.fund_id = fund_ids[key]]
                   ELSE Return(c, Err(FundNotFound(calls[p].arg)))]
    /\ UNCHANGED << registry, quote_cache, locks, started, prev, refreshed >>
    /\ UNCHANGED goal_vars

\* let mut client = self.fmarket_client.write().await;
FundLockClient(p) ==
    /\ calls[p].pc = "fund_lock"
    /\ fmarket_writer = NoOne /\ fmarket_readers = {}
    /\ fmarket_writer' = p
    /\ calls' = [calls EXCEPT ![p].pc = "fund_fetch"]
    /\ UNCHANGED << registry, quote_cache, fmarket_readers, known_writer, ids_writer,
                    started, prev, refreshed >>
    /\ UNCHANGED goal_vars

\* fetch_fund_quote: client.get_all_nav_history(fund_id).await?; history.last().ok_or_else(NoData)?
FetchFundQuote(p) ==
    /\ calls[p].pc = "fund_fetch" /\ calls[p].op = "quote"
    /\ fmarket_writer' = NoOne
    /\ \/ \E history \in NavHistories, today \in Today :
            LET c == Answered(calls[p], "fmarket", Ok(history)) IN
            calls' = [calls EXCEPT ![p] =
                IF history = << >>
                THEN Return(c, Err(NoQuote(calls[p].arg)))
                ELSE [c EXCEPT !.pc = "cache_set",
                               !.quote = Some(FundCachedQuote(calls[p].arg,
                                                  history[Len(history)], today))]]
       \/ calls' = [calls EXCEPT ![p] =
                      Return(Answered(@, "fmarket", Err(ClientError("fmarket"))),
                             Err(ClientError("fmarket")))]
    /\ UNCHANGED << registry, quote_cache, fmarket_readers, known_writer, ids_writer,
                    started, prev, refreshed >>
    /\ UNCHANGED goal_vars

\* fetch_gold_quote: self.sjc_client.get_latest_quote(symbol).await?
FetchGoldQuote(p) ==
    /\ calls[p].pc = "fetch" /\ calls[p].op = "quote"
    /\ calls[p].asset_type = "Gold"
    /\ \/ \E quote \in SjcQuotes(calls[p].arg) :
            calls' = [calls EXCEPT ![p] =
                        [Answered(@, "sjc", Ok(quote)) EXCEPT
                            !.pc = "cache_set", !.quote = Some(GoldCachedQuote(quote))]]
       \/ calls' = [calls EXCEPT ![p] = Return(Answered(@, "sjc", Err(ClientError("sjc"))),
                                               Err(ClientError("sjc")))]
    /\ UNCHANGED << registry, quote_cache, locks, started, prev, refreshed >>
    /\ UNCHANGED goal_vars

\* self.quote_cache.set(quote.clone()).await; Ok(quote)
\* mutant: a quote already in the cache is kept
CacheSetKeepsFirst(p) ==
    /\ calls[p].pc = "cache_set"
    /\ quote_cache' = IF cache_get(quote_cache, calls[p].quote[1].symbol,
                                   calls[p].quote[1].asset_type) # None
                      THEN quote_cache
                      ELSE cache_set(quote_cache, calls[p].quote[1])
    /\ calls' = [calls EXCEPT ![p] = Return(@, Ok(calls[p].quote[1]))]
    /\ UNCHANGED << registry, locks, started, prev, refreshed >>
    /\ UNCHANGED goal_vars

CacheSet(p) ==
    /\ calls[p].pc = "cache_set"
    /\ quote_cache' = cache_set(quote_cache, calls[p].quote[1])
    /\ calls' = [calls EXCEPT ![p] = Return(@, Ok(calls[p].quote[1]))]
    /\ UNCHANGED << registry, locks, started, prev, refreshed >>
    /\ UNCHANGED goal_vars

\* fetch_stock_history: self.vci_client.get_history(symbol, start, end).await?
FetchStockHistory(p) ==
    /\ calls[p].pc = "fetch" /\ calls[p].op = "history"
    /\ calls[p].asset_type \in {"Stock", "Index"}
    /\ \/ \E range \in Ranges, quotes \in VciHistories(calls[p].arg) :
            calls' = [calls EXCEPT ![p] = Return(Answered(@, "vci", Ok(quotes)),
                                                 Ok(StockRecords(quotes)))]
       \/ calls' = [calls EXCEPT ![p] = Return(Answered(@, "vci", Err(ClientError("vci"))),
                                               Err(ClientError("vci")))]
    /\ UNCHANGED << registry, quote_cache, locks, started, prev, refreshed >>
    /\ UNCHANGED goal_vars

\* fetch_fund_history: client.get_nav_history(fund_id, &start_str, &end_str).await?
FetchFundHistory(p) ==
    /\ calls[p].pc = "fund_fetch" /\ calls[p].op = "history"
    /\ fmarket_writer' = NoOne
    /\ \/ \E range \in Ranges, nav_records \in NavHistories :
            calls' = [calls EXCEPT ![p] =
                        Return(Answered(@, "fmarket", Ok(nav_records)),
                               Ok(FundRecords(calls[p].arg, nav_records)))]
       \/ calls' = [calls EXCEPT ![p] =
                      Return(Answered(@, "fmarket", Err(ClientError("fmarket"))),
                             Err(ClientError("fmarket")))]
    /\ UNCHANGED << registry, quote_cache, fmarket_readers, known_writer, ids_writer,
                    started, prev, refreshed >>
    /\ UNCHANGED goal_vars

\* fetch_gold_history: self.sjc_client.get_history(start, end).await?
FetchGoldHistory(p) ==
    /\ calls[p].pc = "fetch" /\ calls[p].op = "history"
    /\ calls[p].asset_type = "Gold"
    /\ \/ \E range \in Ranges, quotes \in SjcHistories :
            calls' = [calls EXCEPT ![p] = Return(Answered(@, "sjc", Ok(quotes)),
                                                 Ok(GoldRecords(calls[p].arg, quotes)))]
       \/ calls' = [calls EXCEPT ![p] = Return(Answered(@, "sjc", Err(ClientError("sjc"))),
                                               Err(ClientError("sjc")))]
    /\ UNCHANGED << registry, quote_cache, locks, started, prev, refreshed >>
    /\ UNCHANGED goal_vars

(***************************************************************************)
(* search                                                                  *)
(***************************************************************************)
CallSearch(p) == \E query \in Queries : Begin(p, "search", query, "search_symbols")

\* let symbols = self.vci_client.get_all_symbols().await?; and the loop over the stocks
SearchSymbols(p) ==
    /\ calls[p].pc = "search_symbols"
    /\ \/ \E symbols \in VciSymbolListings :
            calls' = [calls EXCEPT ![p] =
                        [Answered(@, "vci", Ok(symbols)) EXCEPT
                            !.results = SearchStocks(<< >>, symbols, to_lowercase(calls[p].arg)),
                            !.pc = "search_lock"]]
       \/ calls' = [calls EXCEPT ![p] = Return(Answered(@, "vci", Err(ClientError("vci"))),
                                               Err(ClientError("vci")))]
    /\ UNCHANGED << registry, quote_cache, locks, started, prev, refreshed >>
    /\ UNCHANGED goal_vars

\* let client = self.fmarket_client.read().await;
SearchLockClient(p) ==
    /\ calls[p].pc = "search_lock"
    /\ fmarket_writer = NoOne
    /\ fmarket_readers' = fmarket_readers \cup {p}
    /\ calls' = [calls EXCEPT ![p].pc = "search_funds"]
    /\ UNCHANGED << registry, quote_cache, fmarket_writer, known_writer, ids_writer,
                    started, prev, refreshed >>
    /\ UNCHANGED goal_vars

\* a search that rebuilds the alias set from the fund listing it fetched
SearchFundsFillsRegistry(p) ==
    /\ calls[p].pc = "search_funds"
    /\ fmarket_readers' = fmarket_readers \ {p}
    /\ LET query_lower == to_lowercase(calls[p].arg) IN
       \/ \E funds \in Listings :
            /\ calls' = [calls EXCEPT ![p] =
                  Return(Answered(@, "fmarket", Ok(funds)),
                         Ok(SearchGold(SearchFundsLoop(calls[p].results, funds, query_lower),
                                       query_lower)))]
            /\ known_funds' = KnownAfterRefresh(known_funds, funds)
       \/ /\ calls' = [calls EXCEPT ![p] =
                  Return(Answered(@, "fmarket", Err(ClientError("fmarket"))),
                         Ok(SearchGold(calls[p].results, query_lower)))]
          /\ UNCHANGED known_funds
    /\ UNCHANGED << fund_ids, quote_cache, fmarket_writer, known_writer, ids_writer,
                    started, prev, refreshed >>
    /\ UNCHANGED goal_vars

\* a search that passes the failure of the fund listing on to its caller
SearchFundsFails(p) ==
    /\ calls[p].pc = "search_funds"
    /\ fmarket_readers' = fmarket_readers \ {p}
    /\ LET query_lower == to_lowercase(calls[p].arg) IN
       \/ \E funds \in Listings :
            calls' = [calls EXCEPT ![p] =
                Return(Answered(@, "fmarket", Ok(funds)),
                       Ok(SearchGold(SearchFundsLoop(calls[p].results, funds, query_lower),
                                     query_lower)))]
       \/ calls' = [calls EXCEPT ![p] =
                Return(Answered(@, "fmarket", Err(ClientError("fmarket"))),
                       Err(ClientError("fmarket")))]
    /\ UNCHANGED << registry, quote_cache, fmarket_writer, known_writer, ids_writer,
                    started, prev, refreshed >>
    /\ UNCHANGED goal_vars

\* if let Ok(funds) = client.get_funds_listing().await { .. }; the gold entries; Ok(results)
SearchFunds(p) ==
    /\ calls[p].pc = "search_funds"
    /\ fmarket_readers' = fmarket_readers \ {p}
    /\ LET query_lower == to_lowercase(calls[p].arg) IN
       \/ \E funds \in Listings :
            calls' = [calls EXCEPT ![p] =
                Return(Answered(@, "fmarket", Ok(funds)),
                       Ok(SearchGold(SearchFundsLoop(calls[p].results, funds, query_lower),
                                     query_lower)))]
       \/ calls' = [calls EXCEPT ![p] =
                Return(Answered(@, "fmarket", Err(ClientError("fmarket"))),
                       Ok(SearchGold(calls[p].results, query_lower)))]
    /\ UNCHANGED << registry, quote_cache, fmarket_writer, known_writer, ids_writer,
                    started, prev, refreshed >>
    /\ UNCHANGED goal_vars

(***************************************************************************)
(* The caller drops the future of a call.  A future can be dropped only    *)
(* where it is suspended: at an .await of a lock or of a client or cache   *)
(* call.  The loops that rebuild the registry have no .await in them.      *)
(***************************************************************************)
SuspensionPoints ==
    {"refresh_lock", "refresh_client", "refresh_listing", "refresh_known", "refresh_ids",
     "detect", "cache_get", "fetch", "fund_lock", "fund_fetch", "cache_set",
     "search_symbols", "search_lock", "search_funds"}

\* the locals of the dropped future are dropped, and no result reaches the caller
Dropped(c) ==
    [c EXCEPT !.pc = "cancelled", !.count = 0, !.funds = << >>, !.i = 0, !.fund_id = 0,
              !.quote = None, !.results = << >>]

\* the guards the call holds are among its locals: dropping it releases them
Cancel(p) ==
    /\ calls[p].pc \in SuspensionPoints
    /\ calls' = [calls EXCEPT ![p] = Dropped(@)]
    /\ fmarket_writer' = IF fmarket_writer = p THEN NoOne ELSE fmarket_writer
    /\ fmarket_readers' = fmarket_readers \ {p}
    /\ known_writer' = IF known_writer = p THEN NoOne ELSE known_writer
    /\ ids_writer' = IF ids_writer = p THEN NoOne ELSE ids_writer
    /\ UNCHANGED << registry, quote_cache, started, prev, refreshed >>
    /\ UNCHANGED goal_vars

(***************************************************************************)
(* Specifications.  Spec: NProcs callers run calls concurrently, each call *)
(* to its return.  SpecSeq: one caller makes its calls one after the       *)
(* other, each to its return.  SpecCancel: one caller makes its calls one  *)
(* after the other and may drop a call at any suspension point.            *)
(***************************************************************************)
Step(p) ==
    \/ CallRefresh(p)
    \/ RefreshLockClient(p)
    \/ RefreshClientCache(p)
    \/ RefreshListing(p)
    \/ RefreshKnown(p)
    \/ RefreshKnownPush(p)
    \/ RefreshIds(p)
    \/ RefreshIdsInsert(p)
    \/ CallQuote(p)
    \/ CallHistory(p)
    \/ Detect(p)
    \/ CacheGet(p)
    \/ FetchStockQuote(p)
    \/ ResolveFundId(p)
    \/ FundLockClient(p)
    \/ FetchFundQuote(p)
    \/ FetchGoldQuote(p)
    \/ CacheSet(p)
    \/ FetchStockHistory(p)
    \/ FetchFundHistory(p)
    \/ FetchGoldHistory(p)
    \/ CallSearch(p)
    \/ SearchSymbols(p)
    \/ SearchLockClient(p)
    \/ SearchFunds(p)

Next == \E p \in Procs : Step(p)

Spec == Init /\ [][Next]_vars

(***************************************************************************)
(* SpecFair: the callers of Spec on a service that has been initialized,   *)
(* with the scheduling the runtime gives.  A call that has begun is polled *)
(* again whenever it can go on: a client or cache request returns, and a   *)
(* lock that is free again and again is granted to a call that waits for   *)
(* it (the queue of the tokio RwLock is fair).  Nothing obliges a caller   *)
(* to begin a call.                                                        *)
(***************************************************************************)
\* the call of p is under way
InProgress(p) == calls[p].pc \notin {"idle", "done", "cancelled"}

\* a step of the call of p that is under way
Continue(p) == InProgress(p) /\ Step(p)

Fairness == \A p \in Procs : SF_vars(Continue(p))

\* the service after initialize(): one refresh_fund_cache has returned
InitFair ==
    \E funds \in Listings :
        /\ known_funds = KnownAfterRefresh(<< >>, funds)
        /\ fund_ids = IdsAfterRefresh(EmptyMap, funds)
        /\ refreshed = << funds >>
        /\ quote_cache = EmptyCache
        /\ fmarket_writer = NoOne
        /\ fmarket_readers = {}
        /\ known_writer = NoOne
        /\ ids_writer = NoOne
        /\ calls = [p \in Procs |-> IdleCall]
        /\ started = 1
        /\ prev = [p \in Procs |-> NoSummary]
        /\ GoalsIdle

SpecFair == InitFair /\ [][Next]_vars /\ Fairness

NextSeq == Step(1)

SpecSeq == Init /\ [][NextSeq]_vars

NextCancel == Step(1) \/ Cancel(1)

SpecCancel == Init /\ [][NextCancel]_vars

(***************************************************************************)
(* SpecDetect: the classification and the dispatch on every symbol and on  *)
(* every registry a refresh can leave.  The service has been refreshed     *)
(* with a listing of up to MaxFunds funds, and one caller is about to      *)
(* classify a symbol in get_latest_quote or get_history.                   *)
(***************************************************************************)
MaxFunds == 2

FundD == [id |-> 4, short_name |-> "VESAF", code |-> Some("VNINDEX"), name |-> "vesaf"]

AllFunds == {FundA, FundB, FundC, FundD}

IsListing(funds) ==
    \A i, j \in DOMAIN funds : i # j => funds[i] # funds[j]

WideListings ==
    UNION { { funds \in [1..n -> AllFunds] : IsListing(funds) } : n \in 0..MaxFunds }

InitDetect ==
    \E funds \in WideListings, symbol \in AllSymbols, op \in {"quote", "history"} :
        /\ known_funds = KnownAfterRefresh(<< >>, funds)
        /\ fund_ids = IdsAfterRefresh(EmptyMap, funds)
        /\ refreshed = << funds >>
        /\ quote_cache = EmptyCache
        /\ fmarket_writer = NoOne
        /\ fmarket_readers = {}
        /\ known_writer = NoOne
        /\ ids_writer = NoOne
        /\ calls = [p \in Procs |-> IF p = 1 THEN NewCall(op, symbol, "detect") ELSE IdleCall]
        /\ started = 1
        /\ prev = [p \in Procs |-> NoSummary]
        /\ GoalsIdle

NextDetect ==
    \/ Detect(1)
    \/ CacheGet(1)
    \/ FetchStockQuote(1)
    \/ ResolveFundId(1)
    \/ FundLockClient(1)
    \/ FetchFundQuote(1)
    \/ FetchGoldQuote(1)
    \/ CacheSet(1)
    \/ FetchStockHistory(1)
    \/ FetchFundHistory(1)
    \/ FetchGoldHistory(1)

SpecDetect == InitDetect /\ [][NextDetect]_vars

(***************************************************************************)
(* SpecGoals: the GoalService over a goal repository.  The goal table is   *)
(* one of GoalTables; the allocation table starts empty and is filled by   *)
(* upserts; every other call of the service reads the tables.              *)
(***************************************************************************)
\* rows the allocation table can hold
MaxAllocations == 2

\* allocations passed to one upsert
MaxBatch == 2

G1 == Goal("g1", Some("2025-01-01"), Some("2025-06-30"), FALSE)
G2 == Goal("g2", Some("2025-07-01"), Some("2025-12-31"), FALSE)
G2Achieved == Goal("g2", Some("2025-07-01"), Some("2025-12-31"), TRUE)
G2Undated == Goal("g2", None, None, FALSE)

GoalTables == { << G1, G2 >>, << G1, G2Achieved >>, << G1, G2Undated >>, << G1 >> }

GoalIds == {"g1", "g2"}

Accounts == {"acc-a", "acc-b"}

\* the allocations clients send: a1 of goal g1 on account acc-a, a2 of goal g1 on
\* account acc-b, a3 of goal g2 on account acc-a
AllocationIds == {"a1", "a2", "a3"}

GoalOfAllocation == [id \in AllocationIds |-> IF id = "a3" THEN "g2" ELSE "g1"]

AccountOfAllocation == [id \in AllocationIds |-> IF id = "a2" THEN "acc-b" ELSE "acc-a"]

PercentsOfAllocation == [id \in AllocationIds |-> IF id = "a3" THEN {100, I32Max} ELSE {50, 100}]

\* (start_date, end_date) of an allocation sent by a client
RangesIn ==
    { << None, None >>, << None, Some("2025-06-30") >>, << Some("2025-07-01"), None >>,
      << Some("2025-01-01"), Some("2025-06-30") >>,
      << Some("2025-06-30"), Some("2025-12-31") >>,
      << Some("2025-07-01"), Some("2025-12-31") >> }

AllocationsIn ==
    { GoalsAllocation(id, GoalOfAllocation[id], AccountOfAllocation[id], pct, r[1], r[2]) :
        << id, pct, r >> \in
            { t \in AllocationIds \X {50, 100, I32Max} \X RangesIn :
                t[2] \in PercentsOfAllocation[t[1]] } }

\* the Vec of one upsert: up to MaxBatch allocations of different ids
UpsertInputs ==
    UNION { { list \in [1..n -> AllocationsIn] :
                \A i, j \in 1..n : i < j => list[i].id # list[j].id } : n \in 1..MaxBatch }

\* (new_start_date, new_end_date) of a validation
RangesAsked ==
    { << "2025-01-01", "2025-06-30" >>, << "2025-06-30", "2025-12-31" >>,
      << "2025-07-01", "2025-12-31" >> }

\* account values at the goal start and on the query date
StartValues == { [a \in {"acc-a", "acc-b"} |-> IF a = "acc-a" THEN 100 ELSE 1000],
                 [a \in {"acc-b"} |-> 1000] }

CurrentValues == { [a \in {"acc-a", "acc-b"} |-> IF a = "acc-a" THEN 100 ELSE 3000],
                   [a \in {"acc-a", "acc-b"} |-> IF a = "acc-a" THEN 100 ELSE 600],
                   [a \in {"acc-b"} |-> 1000] }

market_vars == << known_funds, fund_ids, quote_cache,
                 fmarket_writer, fmarket_readers, known_writer, ids_writer,
                 calls, started, prev, refreshed >>

InitGoals ==
    /\ MarketInit
    /\ goals \in GoalTables
    /\ allocations = << >>
    /\ goal_out = NoGoalCall

\* POST /goals/allocations: update_goal_allocations -> upsert_goal_allocations
UpsertGoalAllocations ==
    /\ goal_out = NoGoalCall
    /\ \E list \in UpsertInputs :
           LET passed == BackfillAll(goals, list)
               table == RepoUpsert(allocations, passed)
           IN  /\ Len(table) <= MaxAllocations
               /\ allocations' = table
               /\ goal_out' = [op |-> "upsert", args |-> list, passed |-> passed,
                               result |-> Ok(Len(passed))]
               /\ UNCHANGED << goals, market_vars >>

\* validate_allocation_conflicts(account_id, start, end, percent, exclude)
ValidateConflicts ==
    /\ goal_out = NoGoalCall
    /\ \E account_id \in Accounts, r \in RangesAsked, pct \in {50, 100},
          exclude \in {None} \cup { Some(id) : id \in {"a1", "a3"} } :
           \E result \in ValidateAllocationConflicts(goals, allocations, account_id, r[1], r[2],
                                                     pct, exclude) :
               /\ goal_out' = [op |-> "validate",
                               args |-> [account_id |-> account_id, start_date |-> r[1],
                                         end_date |-> r[2], percent_allocation |-> pct,
                                         exclude |-> exclude],
                               passed |-> << >>, result |-> result]
               /\ UNCHANGED << goals, allocations, market_vars >>

\* get_goal_allocations_on_date(goal_id, query_date)
GoalAllocationsOnDate ==
    /\ goal_out = NoGoalCall
    /\ \E goal_id \in GoalIds, query_date \in GoalDateSet :
           /\ goal_out' = [op |-> "on_date",
                           args |-> [goal_id |-> goal_id, query_date |-> query_date],
                           passed |-> << >>,
                           result |-> Ok(GetGoalAllocationsOnDate(goals, allocations, goal_id,
                                                                  query_date))]
           /\ UNCHANGED << goals, allocations, market_vars >>

\* calculate_goal_progress_on_date(goal, values at start, current values, query_date)
GoalProgress ==
    /\ goal_out = NoGoalCall
    /\ \E i \in DOMAIN goals, start_values \in StartValues, current_values \in CurrentValues,
          query_date \in {"2025-06-30", "2025-07-01"}, empty_is_any \in BOOLEAN :
           LET active == RepoAllocationsForAccountOnDate(allocations, "", query_date,
                                                         empty_is_any)
           IN  /\ goal_out' = [op |-> "progress",
                               args |-> [goal |-> goals[i], start_values |-> start_values,
                                         current_values |-> current_values,
                                         query_date |-> query_date],
                               passed |-> active,
                               result |-> CalculateGoalProgressOnDate(goals[i], active,
                                              start_values, current_values, query_date)]
               /\ UNCHANGED << goals, allocations, market_vars >>

\* the handler returns the answer of the call to the client
GoalAnswer ==
    /\ goal_out # NoGoalCall
    /\ goal_out' = NoGoalCall
    /\ UNCHANGED << goals, allocations, market_vars >>

NextGoals ==
    \/ UpsertGoalAllocations
    \/ ValidateConflicts
    \/ GoalAllocationsOnDate
    \/ GoalProgress
    \/ GoalAnswer

SpecGoals == InitGoals /\ [][NextGoals]_vars

(***************************************************************************)
(* Properties.                                                             *)
(***************************************************************************)
Done(p, op) == calls[p].op = op /\ calls[p].pc = "done"

\* the call of p is a get_latest_quote that went the cold path and returned Ok
ColdOk(p) ==
    /\ Done(p, "quote")
    /\ calls[p].cached = "miss"
    /\ calls[p].result.tag = "Ok"

\* p finished get_latest_quote(symbol) with Ok, made no other call since, and has now
\* finished a second get_latest_quote(symbol)
SecondQuote(p) ==
    /\ Done(p, "quote")
    /\ prev[p].op = "quote"
    /\ prev[p].arg = calls[p].arg

\* C1: for every symbol of every asset type, with no refresh in between: when a first
\* get_latest_quote(symbol) succeeded, a second get_latest_quote(symbol) makes no
\* adapter call and returns the quote of the first call.
C1_SecondQuoteServedFromCache ==
    \A p \in Procs :
        SecondQuote(p) =>
            /\ calls[p].ncalls = 0
            /\ calls[p].result = prev[p].result

\* C2: after every successful cold-path get_latest_quote(s), the quote cache holds the
\* fetched quote under the key (s, T), T the asset type detect_asset_type returned for
\* s in that call.
C2_CacheWriteKeyIsLookupKey ==
    \A p \in Procs :
        ColdOk(p) =>
            cache_get(quote_cache, calls[p].arg, calls[p].asset_type)
                = Some(calls[p].result.val)

\* C3: under every interleaving of refresh_fund_cache with get_latest_quote and
\* get_history, no reader that classified its symbol as Fund (found it in the alias
\* set) then finds no id for it in the id map (FundNotFound).
C3_NoAliasWithoutId ==
    \A p \in Procs :
        (calls[p].pc = "done" /\ calls[p].asset_type = "Fund")
            => calls[p].result # Err(FundNotFound(calls[p].arg))

\* C4: search never returns an error, and search("gold") returns exactly the two
\* synthetic gold entries when both the equity and the fund lookups fail.
IsGoldEntry(r) == r.asset_type = "Gold"

C4_SearchNeverFails ==
    \A p \in Procs :
        Done(p, "search") =>
            /\ calls[p].result.tag = "Ok"
            /\ calls[p].arg = "gold" =>
                   SelectSeq(calls[p].result.val, IsGoldEntry) = GoldEntries

Last(seq) == seq[Len(seq)]

\* the aliases of a listing: the uppercased short names and codes of its funds
ListingAliases(funds) ==
    { to_uppercase(funds[i].short_name) : i \in DOMAIN funds }
        \cup { to_uppercase(funds[i].code[1]) : i \in { j \in DOMAIN funds : funds[j].code # None } }

\* C5: when refresh_fund_cache fails, it returns the error and both known_funds and
\* fund_ids are exactly what they were before the call.
C5_FailedRefreshLeavesRegistry ==
    \A p \in Procs :
        (Done(p, "refresh") /\ calls[p].result.tag = "Err") =>
            /\ calls[p].result = Err(ClientError("fmarket"))
            /\ << known_funds, fund_ids >> = calls[p].before

C5_Witness ==
    \E p \in Procs :
        /\ Done(p, "refresh") /\ calls[p].result.tag = "Err"
        /\ known_funds # << >>

\* C6: after a successful refresh with listing L, following any earlier refreshes, the
\* alias set and the key set of the id map are exactly the uppercased short names and
\* codes of L; after refreshing with [A,B] and then with [C], A has no id and C has one.
C6_RegistryReplacedWholesale ==
    (known_writer = NoOne /\ refreshed # << >>) =>
        /\ Range(known_funds) = ListingAliases(Last(refreshed))
        /\ DOMAIN fund_ids = ListingAliases(Last(refreshed))
        /\ \A i \in DOMAIN Last(refreshed) :
              fund_ids[to_uppercase(Last(refreshed)[i].short_name)] \in
                  { Last(refreshed)[j].id : j \in DOMAIN Last(refreshed) }

C6_Witness ==
    /\ known_writer = NoOne
    /\ refreshed = << << FundA, FundB >>, << FundC >> >>
    /\ to_uppercase("dcds") \notin DOMAIN fund_ids
    /\ to_uppercase("FPT") \in DOMAIN fund_ids

\* C7 as stated: in every reachable registry state detect_asset_type returns Gold for
\* every symbol matching the gold pattern and Index for every symbol matching the
\* index pattern.
C7_GoldAndIndexAlways ==
    \A symbol \in AllSymbols :
        /\ is_gold_symbol(symbol) => detect_asset_type(symbol, known_funds) = "Gold"
        /\ IsIndexPattern(to_uppercase(symbol))
              => detect_asset_type(symbol, known_funds) = "Index"

\* C7 as amended: in every reachable registry state detect_asset_type returns Gold for
\* every symbol matching the gold pattern, and Index for every symbol that matches the
\* index pattern and not the gold pattern; and so does every call that classified.
C7_GoldIndexIgnoreRegistry ==
    /\ \A symbol \in AllSymbols :
          /\ is_gold_symbol(symbol) => detect_asset_type(symbol, known_funds) = "Gold"
          /\ (IsIndexPattern(to_uppercase(symbol)) /\ ~is_gold_symbol(symbol))
                => detect_asset_type(symbol, known_funds) = "Index"
    /\ \A p \in Procs :
          calls[p].asset_type # "none" =>
              /\ is_gold_symbol(calls[p].arg) => calls[p].asset_type = "Gold"
              /\ (IsIndexPattern(to_uppercase(calls[p].arg)) /\ ~is_gold_symbol(calls[p].arg))
                    => calls[p].asset_type = "Index"

\* an index symbol that is itself an alias of the registry was classified Index
C7_Witness ==
    \E p \in Procs :
        /\ calls[p].asset_type = "Index"
        /\ to_uppercase(calls[p].arg) \in Range(known_funds)

\* the listing has a fund whose short name or code is the symbol, uppercased
ListingContains(funds, symbol) ==
    \E i \in DOMAIN funds :
        \/ to_uppercase(funds[i].short_name) = to_uppercase(symbol)
        \/ funds[i].code # None /\ to_uppercase(funds[i].code[1]) = to_uppercase(symbol)

\* C8: a symbol matching neither the gold nor the index pattern is classified Stock
\* before any successful refresh, Fund after a successful refresh whose listing
\* contains it, and Stock again after a later successful refresh whose listing does not.
C8_FundFollowsLastRefresh ==
    \A p \in Procs :
        (calls[p].asset_type # "none" /\ ~DetectsWithoutRegistry(calls[p].arg)) =>
            calls[p].asset_type =
                IF calls[p].seen # << >> /\ ListingContains(Last(calls[p].seen), calls[p].arg)
                THEN "Fund" ELSE "Stock"

C8_Witness ==
    \E p \in Procs :
        /\ calls[p].arg = "dcds"
        /\ calls[p].asset_type = "Stock"
        /\ calls[p].seen = << << FundA, FundB >>, << FundC >> >>

\* the reference precedence: of the types whose test the symbol passes, the first in
\* the order Gold, Index, Fund, Stock.  The index and registry tests read the
\* uppercased symbol, the gold test the symbol as given.
Rank(asset_type) ==
    CASE asset_type = "Gold" -> 1
      [] asset_type = "Index" -> 2
      [] asset_type = "Fund" -> 3
      [] asset_type = "Stock" -> 4

Matching(symbol, aliases) ==
    { a \in AssetTypes :
        \/ a = "Gold" /\ is_gold_symbol(symbol)
        \/ a = "Index" /\ \/ map_index_symbol_is_some(to_uppercase(symbol))
                          \/ to_uppercase(symbol) \in {"VN30", "HNX30"}
                          \/ contains_INDEX(to_uppercase(symbol))
        \/ a = "Fund" /\ to_uppercase(symbol) \in aliases
        \/ a = "Stock" }

Precedence(symbol, aliases) ==
    CHOOSE a \in Matching(symbol, aliases) :
        \A b \in Matching(symbol, aliases) : Rank(a) <= Rank(b)

AdapterOf(asset_type) ==
    CASE asset_type \in {"Stock", "Index"} -> "vci"
      [] asset_type = "Fund" -> "fmarket"
      [] asset_type = "Gold" -> "sjc"

\* C9: detect_asset_type equals the reference precedence function for every symbol and
\* every alias set, and a call is dispatched to the adapter of that type: a symbol in
\* the alias set that matches the index pattern goes to the equity adapter.
C9_DetectIsPrecedence ==
    /\ \A symbol \in AllSymbols :
          detect_asset_type(symbol, known_funds) = Precedence(symbol, Range(known_funds))
    /\ \A p \in Procs :
          /\ calls[p].asset_type # "none" =>
                calls[p].asset_type = Precedence(calls[p].arg, Range(known_funds))
          /\ calls[p].adapter # "none" =>
                calls[p].adapter = AdapterOf(Precedence(calls[p].arg, Range(known_funds)))

C9_Witness ==
    \E p \in Procs :
        /\ to_uppercase(calls[p].arg) \in Range(known_funds)
        /\ IsIndexPattern(to_uppercase(calls[p].arg))
        /\ calls[p].asset_type = "Index"
        /\ calls[p].adapter = "vci"

\* one step of the service, as C10 allows it: a lookup that finds an entry returns it
\* at once, and only the cold path of get_latest_quote writes the cache
C10_Step ==
    /\ \A p \in Procs :
          ( /\ calls[p].pc = "cache_get"
            /\ calls'[p] # calls[p]
            /\ cache_get(quote_cache, calls[p].arg, calls[p].asset_type) # None ) =>
              /\ calls'[p].pc = "done"
              /\ calls'[p].result =
                    Ok(quote_cache[CacheKey(calls[p].arg, calls[p].asset_type)])
              /\ calls'[p].ncalls = 0
              /\ quote_cache' = quote_cache
    /\ quote_cache' # quote_cache =>
          \E p \in Procs :
              /\ calls[p].op = "quote" /\ calls[p].cached = "miss"
              /\ calls[p].ncalls = 1 /\ calls[p].quote # None
              /\ calls'[p].pc = "done" /\ calls'[p].result = Ok(calls[p].quote[1])
              /\ quote_cache' = cache_set(quote_cache, calls[p].quote[1])

\* C10: when the quote cache holds an entry for (symbol, detect_asset_type(symbol)),
\* get_latest_quote(symbol) returns that entry, makes no adapter call and leaves the
\* cache unchanged; and the cache is written only by a get_latest_quote call that
\* missed the cache and whose adapter call succeeded.
C10_HitServedWritesOnlyOnMiss == [][C10_Step]_vars

C10_Witness ==
    \E p \in Procs :
        /\ Done(p, "quote") /\ calls[p].cached = "hit"
        /\ calls[p].result.tag = "Ok" /\ calls[p].ncalls = 0

\* C11: at most one refresh_fund_cache call is between its listing fetch and the end
\* of its registry update, so two concurrent refreshes never interleave their fetches
\* or their writes; and when no refresh is under way the alias set and the id-map keys
\* are the aliases of the listing of the refresh that completed last.
C11_RefreshesSerialised ==
    /\ \A p, q \in Procs : InRefresh(p) /\ InRefresh(q) => p = q
    /\ (\A p \in Procs : ~InRefresh(p)) /\ refreshed # << >> =>
            /\ Range(known_funds) = ListingAliases(Last(refreshed))
            /\ DOMAIN fund_ids = ListingAliases(Last(refreshed))

\* two refreshes were under way together, the second waited for the first, and both
\* have completed with different listings
C11_Witness ==
    /\ \A p \in Procs : Done(p, "refresh") /\ calls[p].result.tag = "Ok"
    /\ started = NProcs
    /\ Len(refreshed) = 2
    /\ ListingAliases(refreshed[1]) # ListingAliases(refreshed[2])
    /\ \E p \in Procs : calls[p].overlap

\* p reads the alias set in this step (detect_asset_type reaches known_funds)
ReadsKnown(p) ==
    /\ calls[p].pc = "detect" /\ calls'[p].pc # "detect"
    /\ ~DetectsWithoutRegistry(calls[p].arg)

\* p reads the id map in this step (fetch_fund_quote, fetch_fund_history)
ReadsIds(p) ==
    /\ calls[p].pc = "fetch" /\ calls'[p].pc # "fetch"
    /\ calls[p].asset_type = "Fund"

\* the refresh of q has fetched its listing
HasListing(q) ==
    calls[q].pc \in {"refresh_known", "known_push", "refresh_ids", "ids_insert"}

\* the complete alias sets around the refresh of q: the one it found, the one it leaves
KnownAround(q) ==
    {calls[q].before[1]} \cup
        (IF HasListing(q) THEN {PushAliases(<< >>, calls[q].funds)} ELSE {})

\* the complete id maps around the refresh of q
IdsAround(q) ==
    {calls[q].before[2]} \cup
        (IF HasListing(q) THEN {InsertIds(EmptyMap, calls[q].funds)} ELSE {})

C12_Step ==
    \A p \in Procs : \A q \in Procs \ {p} :
        InRefresh(q) =>
            /\ ReadsKnown(p) => known_funds \in KnownAround(q)
            /\ ReadsIds(p) => fund_ids \in IdsAround(q)

\* C12: every read of the alias set by detect_asset_type and every read of the id map
\* by fetch_fund_quote or fetch_fund_history that happens while a refresh_fund_cache
\* is under way observes the complete contents from before that refresh or the
\* complete contents it leaves, never a cleared or partly refilled structure.
C12_ReadsSeeCompleteRegistry == [][C12_Step]_vars

\* a reader classified its symbol Fund from the alias set and found its id in the id
\* map, reading while a refresh whose listing differs from the registry was writing
C12_Witness ==
    \E p \in Procs : \E q \in Procs \ {p} :
        /\ calls[p].op \in {"quote", "history"}
        /\ calls[p].overlap
        /\ calls[p].pc = "fund_lock"
        /\ calls[q].pc = "refresh_ids"
        /\ calls[q].before[1] # << >>
        /\ calls[q].before[1] # known_funds

\* the quotes a completed fetch for the symbol can have produced
FetchedQuotes(symbol) ==
    { StockCachedQuote(quote) : quote \in VciQuotes(symbol) }
        \cup { GoldCachedQuote(quote) : quote \in SjcQuotes(symbol) }
        \cup UNION { { FundCachedQuote(symbol, history[i], today) :
                           i \in DOMAIN history, today \in Today } :
                      history \in NavHistories }

\* C13: when the caller drops refresh_fund_cache, get_latest_quote or get_history at
\* a suspension point (an adapter await or a lock acquisition), the registry is not
\* corrupted: once the dropped call's guards are released the alias set and the key
\* set of the id map are equal to each other and to the aliases of a single listing
\* (or both are empty), and the quote cache holds only quotes of completed fetches.
C13_CancelKeepsRegistry ==
    (\A p \in Procs : ~InRefresh(p)) =>
        /\ Range(known_funds) = DOMAIN fund_ids
        /\ \E funds \in Listings : Range(known_funds) = ListingAliases(funds)
        /\ \A k \in DOMAIN quote_cache : quote_cache[k] \in FetchedQuotes(k[1])

\* the listed stocks of the equity listing that match the query, in listing order, as
\* search entries, at most SearchCap of them
EquityMatches(symbols, query_lower) ==
    LET matching == SelectSeq(symbols, LAMBDA s :
                        /\ s.is_stock /\ s.is_listed
                        /\ \/ contains(to_lowercase(s.symbol), query_lower)
                           \/ contains(to_lowercase(s.display_name), query_lower))
        n == IF Len(matching) < SearchCap THEN Len(matching) ELSE SearchCap
    IN [i \in 1..n |-> SearchResult(matching[i].symbol, matching[i].display_name,
                                    "Stock", matching[i].exchange)]

\* the search of p got the equity listing and then no fund listing
FundListingFailed(p) ==
    /\ Done(p, "search")
    /\ Len(calls[p].answers) = 2
    /\ calls[p].answers[1].tag = "Ok"
    /\ calls[p].answers[2].tag = "Err"

\* C14: when the fund-listing fetch inside search fails and the equity fetch
\* succeeded, search returns Ok with the matching equity entries followed by the gold
\* entries (when the query has a gold keyword), and with no Fund entry.
C14_FundFailureSwallowed ==
    \A p \in Procs :
        FundListingFailed(p) =>
            LET query_lower == to_lowercase(calls[p].arg)
                equity == EquityMatches(calls[p].answers[1].val, query_lower)
            IN /\ calls[p].result =
                      Ok(equity \o (IF IsGoldQuery(query_lower) THEN GoldEntries ELSE << >>))
               /\ \A i \in DOMAIN calls[p].result.val :
                      calls[p].result.val[i].asset_type # "Fund"

\* search("gold") got the equity listing, no fund listing, and returned the matching
\* stock followed by the two gold entries
C14_Witness ==
    /\ FundListingFailed(1)
    /\ calls[1].arg = "gold"
    /\ calls[1].answers[1].val = VciSymbols
    /\ Len(calls[1].result.val) = 3
    /\ calls[1].result.val[1].asset_type = "Stock"
    /\ IsGoldEntry(calls[1].result.val[3])

\* get_history is never at the cache lookup or at the cache write, and has made no
\* lookup
HistoryAvoidsCache(p) ==
    calls[p].op = "history" =>
        /\ calls[p].pc \notin {"cache_get", "cache_set"}
        /\ calls[p].cached = "none"

\* C15: get_history never reads or writes the quote cache: the cache is unchanged by
\* the call, and every get_history call reaches the adapter, also when a quote for
\* the same symbol is cached or the same range was requested before.
C15_HistoryBypassesCache ==
    \A p \in Procs :
        /\ HistoryAvoidsCache(p)
        /\ Done(p, "history") => calls[p].ncalls = 1

\* the funds of the listing that match the query, in listing order, as search entries
FundMatches(funds, query_lower) ==
    LET matching == SelectSeq(funds, LAMBDA fund :
                        \/ contains(to_lowercase(fund.short_name), query_lower)
                        \/ contains(to_lowercase(fund.name), query_lower))
    IN [i \in DOMAIN matching |->
            SearchResult(matching[i].short_name, matching[i].name, "Fund", "FUND")]

\* the entries of a search, from its query and from what the two clients answered
SearchEntries(query, answers) ==
    LET query_lower == to_lowercase(query) IN
    EquityMatches(answers[1].val, query_lower)
        \o (IF answers[2].tag = "Ok" THEN FundMatches(answers[2].val, query_lower)
            ELSE << >>)
        \o (IF IsGoldQuery(query_lower) THEN GoldEntries ELSE << >>)

\* a step of a search call of p
SearchStep(p) ==
    /\ calls[p].op = "search"
    /\ calls[p].pc \notin {"done", "cancelled"}
    /\ calls'[p] # calls[p]

C16_Step ==
    \A p \in Procs :
        SearchStep(p) =>
            /\ quote_cache' = quote_cache
            /\ known_funds' = known_funds
            /\ fund_ids' = fund_ids
            /\ calls'[p].pc = "done" /\ calls'[p].result.tag = "Ok" =>
                  calls'[p].result.val = SearchEntries(calls[p].arg, calls'[p].answers)

\* C16: search leaves the quote cache, the alias set and the id map unchanged, for
\* every query and every outcome, and its entries are determined by the query and by
\* what the clients answered, whatever the quote cache holds.
C16_SearchTouchesNothing == [][C16_Step]_vars

\* a search returned entries with a quote in the cache and a refreshed registry
C16_Witness ==
    /\ Done(1, "search")
    /\ calls[1].result.tag = "Ok"
    /\ Len(calls[1].result.val) > 1
    /\ Len(calls[1].answers) = 2 /\ calls[1].answers[2].tag = "Ok"
    /\ quote_cache # EmptyCache
    /\ known_funds # << >>

\* the day of the month of a date of Dates
DayOf(date) ==
    CASE date = "2025-01-01" -> 1
      [] date = "2025-01-02" -> 2
      [] date = "2025-01-03" -> 3
      [] date = "2025-01-05" -> 5

\* the get_latest_quote of p fetched a NAV history with entries and returned a quote
FundQuoteFetched(p) ==
    /\ Done(p, "quote")
    /\ calls[p].asset_type = "Fund"
    /\ calls[p].result.tag = "Ok"
    /\ calls[p].answers # << >>
    /\ calls[p].answers[1].tag = "Ok"

FundHistoryFetched(p) ==
    /\ Done(p, "history")
    /\ calls[p].asset_type = "Fund"
    /\ calls[p].answers # << >>
    /\ calls[p].answers[1].tag = "Ok"

\* C18: for a Fund, get_history returns exactly one record per NAV row whose date
\* parses, in the adapter's order, and drops every row whose date does not parse
\* without failing the call.
C18_FundHistoryDropsBadRows ==
    \A p \in Procs :
        FundHistoryFetched(p) =>
            LET rows == calls[p].answers[1].val
                kept == SelectSeq(rows, LAMBDA r : parse_date(r) # None)
            IN calls[p].result =
                  Ok([i \in DOMAIN kept |->
                         FundRecord(calls[p].arg, kept[i].nav_date,
                                    unwrap_or_default(from_f64_retain(kept[i].nav)))])

\* three rows came, the middle one with a date that does not parse, and get_history
\* returned the two others in order
C18_Witness ==
    /\ FundHistoryFetched(1)
    /\ calls[1].answers[1].val = << Nav1, NavBad, Nav2 >>
    /\ calls[1].result.tag = "Ok"
    /\ Len(calls[1].result.val) = 2
    /\ calls[1].result.val[1].date = Nav1.nav_date
    /\ calls[1].result.val[2].date = Nav2.nav_date

\* a step of a get_latest_quote call of p
QuoteStep(p) ==
    /\ calls[p].op = "quote"
    /\ calls[p].pc \notin {"done", "cancelled"}
    /\ calls'[p] # calls[p]

\* the client answered Ok with no record: no quote from the equity client, an empty
\* NAV history from the fund client
NoUsableRecord(c) == c.answers # << >> /\ c.answers[1] = Ok(<< >>)

C19_Step ==
    \A p \in Procs :
        QuoteStep(p) =>
            /\ calls'[p].pc = "done" /\ NoUsableRecord(calls'[p]) =>
                  calls'[p].result = Err(NoData(calls[p].arg, "latest"))
            /\ quote_cache' # quote_cache =>
                  calls'[p].pc = "done" /\ calls'[p].result.tag = "Ok"

\* C19: get_latest_quote returns NoData { symbol, date: "latest" } when the adapter
\* yields no usable record (the equity adapter returns no quote, or the NAV history
\* of the fund is empty); then, as on every other error outcome, the quote cache is
\* left unchanged: only a step that returns Ok changes it.
C19_NoDataLeavesCache == [][C19_Step]_vars

\* with a quote in the cache, a get_latest_quote of a fund got an empty NAV history
\* and returned NoData
C19_Witness ==
    /\ Done(1, "quote")
    /\ calls[1].asset_type = "Fund"
    /\ NoUsableRecord(calls[1])
    /\ calls[1].result = Err(NoData(calls[1].arg, "latest"))
    /\ quote_cache # EmptyCache

\* the get_latest_quote of p fetched a gold quote and returned it
GoldQuoteFetched(p) ==
    /\ Done(p, "quote")
    /\ calls[p].asset_type = "Gold"
    /\ calls[p].result.tag = "Ok"
    /\ calls[p].answers # << >>

\* C20: the quote get_latest_quote returns for Gold has open = high = low = close =
\* the upstream sell price, volume 0, no nav, and buy_price and sell_price equal to
\* the upstream buy and sell prices, for every gold quote the adapter delivers.
C20_GoldQuoteAtSellPrice ==
    \A p \in Procs :
        GoldQuoteFetched(p) =>
            LET upstream == calls[p].answers[1].val
                quote == calls[p].result.val
            IN /\ quote.open = upstream.sell_price
               /\ quote.high = upstream.sell_price
               /\ quote.low = upstream.sell_price
               /\ quote.close = upstream.sell_price
               /\ quote.volume = 0
               /\ quote.nav = None
               /\ quote.buy_price = Some(upstream.buy_price)
               /\ quote.sell_price = Some(upstream.sell_price)

\* a gold quote with buy price 78 and sell price 80 came from the adapter and was
\* returned
C20_Witness ==
    /\ GoldQuoteFetched(1)
    /\ calls[1].answers[1].val.buy_price = 78
    /\ calls[1].answers[1].val.sell_price = 80
    /\ calls[1].result.val.close = 80

\* a Fund quote or record: one price, no volume, the NAV kept, no buy or sell price
IsNavPriced(r, nav) ==
    /\ r.open = nav /\ r.high = nav /\ r.low = nav /\ r.close = nav
    /\ r.volume = 0
    /\ r.nav = Some(nav)
    /\ r.buy_price = None /\ r.sell_price = None

\* C21: every Fund quote returned by get_latest_quote and every Fund record returned
\* by get_history has open = high = low = close = nav, volume 0, nav present and
\* equal to the upstream NAV, and no buy or sell price.
C21_FundPricedAtUpstreamNav ==
    \A p \in Procs :
        /\ FundQuoteFetched(p) =>
              \E i \in DOMAIN calls[p].answers[1].val :
                  IsNavPriced(calls[p].result.val, calls[p].answers[1].val[i].nav)
        /\ FundHistoryFetched(p) =>
              LET kept == SelectSeq(calls[p].answers[1].val, LAMBDA r : parse_date(r) # None)
              IN \A i \in DOMAIN calls[p].result.val :
                    IsNavPriced(calls[p].result.val[i], kept[i].nav)

\* the client request of the call of p failed
AdapterFailed(p) ==
    /\ calls[p].op \in {"quote", "history"}
    /\ calls[p].answers # << >>
    /\ calls[p].answers[1].tag = "Err"

\* C22: the facade never retries: a get_latest_quote or get_history call makes at most
\* one request to a client, and when that request fails the call returns the error of
\* the client unchanged, with no second attempt and no request to another client.
C22_NoRetry ==
    \A p \in Procs :
        /\ calls[p].op \in {"quote", "history"} =>
              calls[p].ncalls <= 1 /\ Len(calls[p].answers) = calls[p].ncalls
        /\ AdapterFailed(p) =>
              /\ calls[p].pc = "done"
              /\ calls[p].result = calls[p].answers[1]

\* a get_latest_quote made one request to the equity client, which failed, and
\* returned that error
C22_Witness ==
    /\ AdapterFailed(1)
    /\ calls[1].op = "quote"
    /\ calls[1].adapter = "vci"
    /\ calls[1].ncalls = 1
    /\ calls[1].result = Err(ClientError("vci"))

\* the entries of the given asset type, in the order of the result
OfType(entries, asset_type) == SelectSeq(entries, LAMBDA e : e.asset_type = asset_type)

\* the search of p returned Ok
SearchOk(p) == Done(p, "search") /\ calls[p].result.tag = "Ok"

\* C23: in every search result the Stock entries are at most SearchCap (20) and are
\* the first matching listed, stock-tagged entries in listing order; the Fund entries
\* are not capped: every matching fund appears, also after 20 Stock entries; and the
\* two Gold entries (VN.GOLD, VN.GOLD.C) come last iff the lowercased query contains
\* "gold" or "vàng" or equals "sjc", otherwise there is none.
C23_StocksCappedFundsNot ==
    \A p \in Procs :
        SearchOk(p) =>
            LET entries == calls[p].result.val
                query_lower == to_lowercase(calls[p].arg)
                stocks == OfType(entries, "Stock")
                funds == OfType(entries, "Fund")
                gold == OfType(entries, "Gold")
            IN /\ entries = stocks \o funds \o gold
               /\ Len(stocks) <= SearchCap
               /\ stocks = EquityMatches(calls[p].answers[1].val, query_lower)
               /\ calls[p].answers[2].tag = "Ok" =>
                     funds = FundMatches(calls[p].answers[2].val, query_lower)
               /\ gold = IF IsGoldQuery(query_lower) THEN GoldEntries ELSE << >>
               /\ GoldEntries[1].symbol = "VN.GOLD" /\ GoldEntries[2].symbol = "VN.GOLD.C"

\* search("gold") over a listing with 21 matching listed stocks returned 20 of them,
\* then the matching fund, then the two gold entries
C23_Witness ==
    /\ SearchOk(1)
    /\ calls[1].arg = "gold"
    /\ calls[1].answers[1].val = VciManySymbols
    /\ Len(calls[1].result.val) = SearchCap + 3
    /\ calls[1].result.val[SearchCap].symbol = Ticker(SearchCap + 1)
    /\ calls[1].result.val[SearchCap + 1].asset_type = "Fund"
    /\ calls[1].result.val[SearchCap + 3].symbol = "VN.GOLD.C"

(***************************************************************************)
(* The GoalService.                                                        *)
(***************************************************************************)
\* the goal of the row is in the goal table and is not achieved
OfNonAchievedGoal(a) ==
    \E i \in DOMAIN goals : goals[i].id = a.goal_id /\ ~goals[i].is_achieved

\* the rows a validation with the arguments q counts: the stored allocations of
\* non-achieved goals on the account, with both dates, not the excluded one, whose
\* range meets [start_date, end_date]
CountedRows(q) ==
    { i \in DOMAIN allocations :
        LET a == allocations[i] IN
            /\ OfNonAchievedGoal(a)
            /\ a.account_id = q.account_id
            /\ a.start_date # None /\ a.end_date # None
            /\ (q.exclude = None \/ a.id # q.exclude[1])
            /\ StrLe(a.start_date[1], q.end_date)
            /\ StrLe(q.start_date, a.end_date[1]) }

\* the rows, none of them negative, add up to more than limit
RECURSIVE AddUpBeyond(_, _)
AddUpBeyond(rows, limit) ==
    IF rows = {} THEN limit < 0
    ELSE LET i == CHOOSE i \in rows : TRUE
         IN  \/ allocations[i].percent_allocation > limit
             \/ AddUpBeyond(rows \ {i}, limit - allocations[i].percent_allocation)

\* C24: validate_allocation_conflicts returns Ok exactly when the new percentage
\* plus the percentages of the stored allocations of non-achieved goals on the same
\* account, with both dates, not excluded, whose range meets [start, end] (both ends
\* included), is at most 100
C24_OkIffWithinHundred ==
    goal_out.op = "validate" =>
        (goal_out.result = Ok(<< >>)
            <=> ~AddUpBeyond(CountedRows(goal_out.args),
                             100 - goal_out.args.percent_allocation))

\* the stored allocations of non-achieved goals on the account that are active on
\* the date: both dates set and start_date <= date <= end_date
ActiveRows(account_id, date) ==
    { i \in DOMAIN allocations :
        LET a == allocations[i] IN
            /\ OfNonAchievedGoal(a)
            /\ a.account_id = account_id
            /\ a.start_date # None /\ a.end_date # None
            /\ StrLe(a.start_date[1], date)
            /\ StrLe(date, a.end_date[1]) }

\* C25: after any sequence of upserts through update_goal_allocations, on every
\* account and every date the percentages of the active allocations add up to at
\* most 100
C25_AccountWithinHundred ==
    \A account_id \in Accounts, date \in GoalDateSet :
        ~AddUpBeyond(ActiveRows(account_id, date), 100)

\* the stored allocations of the goal, the goal not achieved, that are active on the
\* date
ActiveRowsOfGoal(goal_id, date) ==
    { i \in DOMAIN allocations :
        LET a == allocations[i] IN
            /\ OfNonAchievedGoal(a)
            /\ a.goal_id = goal_id
            /\ a.start_date # None /\ a.end_date # None
            /\ StrLe(a.start_date[1], date)
            /\ StrLe(date, a.end_date[1]) }

\* C26: get_goal_allocations_on_date returns exactly the allocations of non-achieved
\* goals with the goal's id and start_date <= date <= end_date; a row without one of
\* its dates is never returned; every row of the goal active on the date is
\* returned, once
C26_ExactlyTheActiveAllocations ==
    goal_out.op = "on_date" =>
        LET returned == goal_out.result.val
            active == ActiveRowsOfGoal(goal_out.args.goal_id, goal_out.args.query_date)
        IN  /\ goal_out.result.tag = "Ok"
            /\ Len(returned) = Cardinality(active)
            /\ { returned[k] : k \in DOMAIN returned } = { allocations[i] : i \in active }
            /\ \A k \in DOMAIN returned :
                   returned[k].start_date # None /\ returned[k].end_date # None

\* two allocations of one goal are both returned for a date inside both ranges, the
\* last day of one of them
C26_Witness ==
    /\ goal_out.op = "on_date"
    /\ Len(goal_out.result.val) = 2
    /\ goal_out.result.val[1].goal_id = goal_out.result.val[2].goal_id
    /\ \E k \in 1..2 : goal_out.result.val[k].end_date = Some(goal_out.args.query_date)

\* the goals of the goal table with the id
GoalsWithId(goal_id) == { g \in { goals[i] : i \in DOMAIN goals } : g.id = goal_id }

\* what upsert_goal_allocations may make of the allocation a: b
OnlyMissingDatesFilled(a, b) ==
    /\ b.id = a.id /\ b.goal_id = a.goal_id /\ b.account_id = a.account_id
    /\ b.percent_allocation = a.percent_allocation
    /\ DOMAIN b = DOMAIN a
    /\ a.start_date # None => b.start_date = a.start_date
    /\ a.end_date # None => b.end_date = a.end_date
    /\ IF GoalsWithId(a.goal_id) = {} THEN b = a
       ELSE \E g \in GoalsWithId(a.goal_id) :
               /\ a.start_date = None => b.start_date = g.start_date
               /\ a.end_date = None => b.end_date = g.due_date

\* C29: upsert_goal_allocations hands the repository the allocations it was given, in
\* order, with a missing start_date replaced by the goal's start_date and a missing
\* end_date by the goal's due_date; a date that is present, every other field, and
\* every allocation whose goal_id matches no goal are left as they were
C29_BackfillsOnlyMissingDates ==
    goal_out.op = "upsert" =>
        /\ Len(goal_out.passed) = Len(goal_out.args)
        /\ \A k \in DOMAIN goal_out.args :
               OnlyMissingDatesFilled(goal_out.args[k], goal_out.passed[k])

\* one upsert of two allocations: one of a known goal whose missing end date was
\* filled while its start date, not the goal's, was kept; one of an unknown goal
\* that went through without dates
C29_Witness ==
    /\ goal_out.op = "upsert"
    /\ Len(goal_out.args) = 2
    /\ \E k \in 1..2 :
           /\ GoalsWithId(goal_out.args[k].goal_id) # {}
           /\ goal_out.args[k].end_date = None
           /\ goal_out.passed[k].end_date # None
           /\ goal_out.args[k].start_date # None
           /\ \A g \in GoalsWithId(goal_out.args[k].goal_id) :
                  goal_out.passed[k].start_date # g.start_date
    /\ \E j \in 1..2 :
           /\ GoalsWithId(goal_out.args[j].goal_id) = {}
           /\ goal_out.args[j].start_date = None
           /\ goal_out.passed[j] = goal_out.args[j]

(***************************************************************************)
(* Concurrent quotes of one symbol.                                        *)
(***************************************************************************)
\* the get_latest_quote call of p writes its quote to the cache and returns
WritesQuote(p) ==
    /\ calls[p].op = "quote"
    /\ calls[p].pc = "cache_set"
    /\ calls'[p].pc = "done"

\* a write of a quote follows a miss and one request to a client, whatever the
\* other callers are doing, and leaves the quote of the writer in the cache
C28_Step ==
    \A p \in Procs :
        WritesQuote(p) =>
            /\ calls[p].cached = "miss"
            /\ calls[p].ncalls = 1
            /\ calls'[p].result = Ok(calls[p].quote[1])
            /\ cache_get(quote_cache', calls[p].quote[1].symbol,
                         calls[p].quote[1].asset_type) = calls[p].quote

\* C28: there is no single-flight: every get_latest_quote that missed the cache asks
\* its client and writes what it got, so that after two such calls for one symbol
\* the cache holds the quote of the call that wrote last
C28_LastWriterWins == [][C28_Step]_vars

\* two callers asked the quote of the same symbol at the same time, both missed the
\* cache, both asked the client, got different quotes, and the cache holds the quote
\* of the second caller
C28_Witness ==
    /\ calls[1].op = "quote" /\ calls[2].op = "quote"
    /\ calls[1].arg = calls[2].arg
    /\ calls[1].asset_type = calls[2].asset_type
    /\ calls[1].pc = "done" /\ calls[2].pc = "done"
    /\ calls[1].cached = "miss" /\ calls[2].cached = "miss"
    /\ calls[1].ncalls = 1 /\ calls[2].ncalls = 1
    /\ calls[1].adapter = calls[2].adapter
    /\ calls[1].result.tag = "Ok" /\ calls[2].result.tag = "Ok"
    /\ calls[1].result # calls[2].result
    /\ cache_get(quote_cache, calls[2].result.val.symbol, calls[2].result.val.asset_type)
           = Some(calls[2].result.val)

(***************************************************************************)
(* Locking.                                                                *)
(***************************************************************************)
\* C30: the locking is deadlock-free: with client requests that return and fair lock
\* grants, every call of refresh_fund_cache, get_latest_quote, get_history and
\* search that has begun returns, whatever the other callers do
C30_EveryCallCompletes ==
    \A p \in Procs : InProgress(p) ~> (calls[p].pc = "done")

\* a refresh_fund_cache holds the write guards of the client and of the alias set
\* while the other caller waits for the client lock
C30_Witness ==
    \E p, q \in Procs :
        /\ p # q
        /\ calls[p].pc = "known_push"
        /\ fmarket_writer = p /\ known_writer = p
        /\ calls[q].pc \in {"refresh_lock", "fund_lock", "search_lock"}

(***************************************************************************)
(* The registry between refreshes.                                         *)
(***************************************************************************)
\* no refresh_fund_cache call holds the client lock
NoRefreshInProgress == \A p \in Procs : ~InRefresh(p)

\* the listing of the last refresh that returned Ok; none before the first
LastListing == IF refreshed = << >> THEN << >> ELSE refreshed[Len(refreshed)]

\* the aliases of a fund: its short name and, when it has one, its code, uppercased
AliasesOf(fund) ==
    { to_uppercase(fund.short_name) }
        \cup (IF fund.code # None THEN { to_uppercase(fund.code[1]) } ELSE {})

\* no alias of the listing belongs to two of its funds
AliasesApart(funds) ==
    \A i, j \in DOMAIN funds : i # j => AliasesOf(funds[i]) \cap AliasesOf(funds[j]) = {}

\* the alias set and the keys of the id map are the same set
SameAliases == Range(known_funds) = DOMAIN fund_ids

\* C31 as stated: whenever no refresh_fund_cache is in progress, the aliases in
\* known_funds are the keys of fund_ids, and the alias of a fund's short name and
\* the alias of the same fund's code map to the same fund id
C31_AliasesOfAFundShareItsId ==
    NoRefreshInProgress =>
        /\ SameAliases
        /\ \A i \in DOMAIN LastListing :
               LET fund == LastListing[i] IN
                   fund.code # None =>
                       fund_ids[to_uppercase(fund.short_name)]
                           = fund_ids[to_uppercase(fund.code[1])]

\* C31, amended: whenever no refresh_fund_cache is in progress, the aliases in
\* known_funds are the keys of fund_ids; and when no alias of the listing last
\* refreshed belongs to two of its funds, every alias of a fund, from its short name
\* or from its code, maps to the id of that fund
C31_AliasesShareIdWhenApart ==
    NoRefreshInProgress =>
        /\ SameAliases
        /\ AliasesApart(LastListing) =>
               \A i \in DOMAIN LastListing : \A alias \in AliasesOf(LastListing[i]) :
                   fund_ids[alias] = LastListing[i].id

\* a refresh has filled the registry with a fund that has a code, a later refresh
\* has failed, and no refresh is in progress
C31_Witness ==
    /\ NoRefreshInProgress
    /\ LastListing = << FundA, FundB >>
    /\ fund_ids["DCDS"] = 1 /\ fund_ids["VN30"] = 1
    /\ \E p \in Procs :
           calls[p].op = "refresh" /\ calls[p].pc = "done" /\ calls[p].result.tag = "Err"

(***************************************************************************)
(* The asset type of what is returned.                                     *)
(***************************************************************************)
\* every quote or record of an Ok answer of p carries the asset type t
TaggedAs(p, t) ==
    /\ Done(p, "quote") /\ calls[p].result.tag = "Ok"
           => calls[p].result.val.asset_type = t
    /\ Done(p, "history") /\ calls[p].result.tag = "Ok"
           => \A i \in DOMAIN calls[p].result.val :
                  calls[p].result.val[i].asset_type = t

\* C32: every quote returned by get_latest_quote(s) and every record returned by
\* get_history(s, ..) carries the asset type detect_asset_type returned for s in that
\* call, for all four asset types.
C32_ReturnedTypeIsDetectedType ==
    \A p \in Procs : TaggedAs(p, calls[p].asset_type)
====
